---- MODULE Spec2Model ----
(***************************************************************************)
(* Model of the beat-reactive video renderer: the effect parameter builder *)
(* (effect_engine.calculate_effect_parameters), the temporal envelope      *)
(* evaluator (effect_engine.get_effect_value_at_time), the particle system *)
(* (video_renderer.ParticleSystem) and the frame loop of                   *)
(* video_renderer.render_video.                                            *)
(*                                                                         *)
(* Numbers.  The code computes in binary floating point; the model computes*)
(* the same formulas exactly, over integers:                               *)
(*   - a time is a whole number of ticks, TicksPerSecond ticks a second    *)
(*     (1/24 s, 1/30 s, 0.03 s, 0.05 s ... are all whole numbers of ticks);*)
(*   - an intensity or an audio strength is a number of tenths (0..10);    *)
(*   - a trigger strength (audio strength * intensity) is in hundredths;   *)
(*   - an evaluated envelope is a numerator over the fixed denominator     *)
(*     named next to the operator that computes it.                        *)
(* Where float rounding could differ from the exact value (a comparison at *)
(* an exact window edge) the model follows the exact value.                *)
(***************************************************************************)
EXTENDS Integers, Sequences, FiniteSets, TLC

(***************************************************************************)
(* Units and program constants                                             *)
(***************************************************************************)
\* ticks per second: the least unit in which every window of the evaluator
\* and both frame periods (1/24 s, 1/30 s) are whole numbers
TicksPerSecond == 600

\* video_renderer.py:340  "if len(previous_bursts) > 100"
PreviousBurstsLimit == 100

\* video_renderer.py:329  burst_params.get("lifetime", 1.0), in ticks
DefaultBurstLifetime == TicksPerSecond

\* video_renderer.py:325  burst_params.get("count", 50)
DefaultBurstCount == 50

\* draws of random.random() per spawned particle (angle, velocity, size,
\* colour, alpha, lifetime), video_renderer.py:94-112
DrawsPerParticle == 6

(***************************************************************************)
(* Bounds of the model                                                     *)
(***************************************************************************)
\* beats (and onsets) per enumerated audio feature list
MaxBeats == 3
\* render duration, in ticks
DurationTicks == 1000
\* number of levels k/RandLevels a random.random() draw is taken from
RandLevels == 4
\* particles per burst in the particle-system specification
MaxCount == 3
\* spawn and update calls per run of the particle-system specification
MaxOps == 3
\* beats per audio feature list in the evaluator specification
MaxEvalBeats == 2
\* ticks between one query time of the evaluator and the next
EvalStep == 2
MaxTwinOps == 2
JobFrames == 3
\* progress callbacks of one background task
MaxProgressCalls == 1
\* beats, and onsets, per audio feature list in the builder specification
MaxBuildBeats == 2
MaxBuildOnsets == 5
\* calls of the builder per run of the builder specification
MaxBuilds == 2

Min(a, b) == IF a <= b THEN a ELSE b
Max(a, b) == IF a >= b THEN a ELSE b

\* the greatest element of a non-empty finite set of integers
MaxOf(S) == CHOOSE x \in S : \A y \in S : y <= x

(***************************************************************************)
(* Inputs: toggles, audio features, image context                          *)
(***************************************************************************)
Effects ==
  { "element_glow", "element_scale", "neon_outline", "echo_trail",
    "particle_burst", "energy_trails", "light_flares", "glitch",
    "ripple_wave", "film_grain", "strobe_flash", "vignette_pulse",
    "background_dim" }

\* effects whose parameter record carries a trigger list
TriggeredEffects ==
  { "element_glow", "element_scale", "neon_outline", "particle_burst",
    "light_flares", "glitch", "ripple_wave", "strobe_flash", "vignette_pulse" }

\* EffectToggle(enabled, intensity), intensity in tenths
EffectToggle(enabled, intensity) == [enabled |-> enabled, intensity |-> intensity]

\* SubjectBounds, in hundredths of the frame; centre in two-hundredths
SubjectBounds(x, y, w, h) == [x |-> x, y |-> y, w |-> w, h |-> h]
DefaultBounds == SubjectBounds(25, 25, 50, 50)
center_x(b) == 2 * b.x + b.w
center_y(b) == 2 * b.y + b.h

\* a hex colour after lstrip('#'): six hex digits
White  == <<15, 15, 15, 15, 15, 15>>
Gold   == <<15, 15, 13, 7, 0, 0>>
Orange == <<15, 15, 6, 11, 3, 5>>

\* an ImageContext with the subject in the top left corner and no colours
CornerContext ==
  [bounds |-> [x |-> 0, y |-> 0, w |-> 50, h |-> 50], glow_points |-> << >>,
   colors |-> << >>, mood |-> "neutral"]

\* ImageContext defaults
DefaultContext ==
  [bounds |-> DefaultBounds, glow_points |-> << >>,
   colors |-> <<White, Gold, Orange>>, mood |-> "neutral"]

\* image_context = None
NoContext == [none |-> TRUE]

hex_to_rgb(h) == <<16 * h[1] + h[2], 16 * h[3] + h[4], 16 * h[5] + h[6]>>

\* zip(times, strengths): pairs up to the shorter list
Zip(times, strengths) ==
  [k \in 1..Min(Len(times), Len(strengths)) |->
     [time |-> times[k], strength |-> strengths[k]]]

\* s[:n]
Take(s, n) == SubSeq(s, 1, Min(n, Len(s)))

\* the (time, strength * intensity) list of the events kept for an effect
Triggers(kept, intensity) ==
  [k \in 1..Len(kept) |->
     [time |-> kept[k].time, strength |-> kept[k].strength * intensity]]

(***************************************************************************)
(* Effect parameter builder: effect_engine.calculate_effect_parameters     *)
(***************************************************************************)
\* glitch: every stride-th strong onset, with its duration in ticks
\* (0.05 + strength * 0.1 seconds) and strength * intensity
GlitchStride(intensity) == Max(1, (40 - 3 * intensity) \div 10)

GlitchTriggers(onsets, intensity) ==
  LET strong_onsets == SelectSeq(onsets, LAMBDA o : o.strength > 7)
      stride == GlitchStride(intensity)
      n == (Len(strong_onsets) + stride - 1) \div stride
  IN  [j \in 1..n |->
         LET o == strong_onsets[(j - 1) * stride + 1]
         IN  [time |-> o.time,
              duration |-> 30 + 6 * o.strength,
              strength |-> o.strength * intensity]]

calculate_effect_parameters(audio_features, toggles, image_context) ==
  LET ctx == IF image_context = NoContext THEN DefaultContext ELSE image_context
      bounds == ctx.bounds
      colors_rgb == IF ctx.colors # << >>
                    THEN [k \in 1..Min(5, Len(ctx.colors)) |-> hex_to_rgb(ctx.colors[k])]
                    ELSE << <<255, 200, 100>> >>
      primary_color == IF colors_rgb # << >> THEN colors_rgb[1] ELSE <<255, 200, 100>>
      beats == Zip(audio_features.beat_times, audio_features.beat_strengths)
      onsets == Zip(audio_features.onset_times, audio_features.onset_strengths)
      I(e) == toggles[e].intensity
      on(e) == toggles[e].enabled
  IN
  [ duration |-> audio_features.duration,
    fps |-> 30,
    subject_bounds |-> bounds,
    element_glow |->
      [enabled |-> on("element_glow"), intensity |-> I("element_glow"),
       color |-> primary_color,
       radius |-> 30 + 7 * I("element_glow"),
       pulse_triggers |->
         IF on("element_glow")
         THEN Triggers(SelectSeq(beats,
                  LAMBDA b : 10 * b.strength >= 3 * (10 - I("element_glow"))),
                I("element_glow"))
         ELSE << >>],
    element_scale |->
      [enabled |-> on("element_scale"), intensity |-> I("element_scale"),
       base_scale |-> 1000,                                   \* thousandths
       max_scale |-> 1000 + 15 * I("element_scale"),
       triggers |->
         IF on("element_scale")
         THEN Triggers(beats, I("element_scale"))
         ELSE << >>],
    neon_outline |->
      [enabled |-> on("neon_outline"), intensity |-> I("neon_outline"),
       color |-> IF Len(colors_rgb) > 1 THEN colors_rgb[2] ELSE <<0, 255, 255>>,
       width |-> 20 + 4 * I("neon_outline"),                  \* tenths of a pixel
       glow_radius |-> 50 + 15 * I("neon_outline"),           \* tenths of a pixel
       pulse_triggers |->
         IF on("neon_outline")
         THEN Triggers(SelectSeq(beats, LAMBDA b : b.strength >= 4), I("neon_outline"))
         ELSE << >>],
    echo_trail |->
      [enabled |-> on("echo_trail"), intensity |-> I("echo_trail"),
       trail_count |-> 3 + (5 * I("echo_trail")) \div 10,
       trail_spacing |-> 30 + 5 * (10 - I("echo_trail")),     \* milliseconds
       opacity_decay |-> 60 + 2 * (10 - I("echo_trail"))],    \* hundredths
    particle_burst |->
      [enabled |-> on("particle_burst"), intensity |-> I("particle_burst"),
       particle_count |-> 30 + 7 * I("particle_burst"),
       colors |-> Take(colors_rgb, 3),
       size_range |-> <<20 + 2 * I("particle_burst"),
                        80 + 8 * I("particle_burst")>>,       \* tenths of a pixel
       speed |-> 150 + 15 * I("particle_burst"),
       lifetime |-> 480 + 36 * I("particle_burst"),           \* ticks
       triggers |->
         IF on("particle_burst")
         THEN Triggers(SelectSeq(beats, LAMBDA b : b.strength >= 5), I("particle_burst"))
         ELSE << >>,
       origin_x |-> center_x(bounds),
       origin_y |-> center_y(bounds)],
    energy_trails |->
      [enabled |-> on("energy_trails"), intensity |-> I("energy_trails"),
       trail_count |-> 4 + (8 * I("energy_trails")) \div 10,
       colors |-> Take(colors_rgb, 2),
       width |-> 10 + 3 * I("energy_trails"),                 \* tenths of a pixel
       orbit_radius |-> 50 + 10 * I("energy_trails"),
       speed |-> 5 + I("energy_trails"),                      \* tenths of a rev/s
       center_x |-> center_x(bounds),
       center_y |-> center_y(bounds)],
    light_flares |->
      [enabled |-> on("light_flares"), intensity |-> I("light_flares"),
       flare_points |->
         IF ctx.glow_points # << >>
         THEN [k \in 1..Len(ctx.glow_points) |->
                 <<ctx.glow_points[k].x, ctx.glow_points[k].y>>]
         ELSE << <<center_x(bounds), center_y(bounds)>> >>,
       colors |-> << <<255, 255, 200>> >> \o Take(colors_rgb, 1),
       size |-> 50 + 10 * I("light_flares"),
       triggers |->
         IF on("light_flares")
         THEN Triggers(SelectSeq(beats, LAMBDA b : b.strength >= 6), I("light_flares"))
         ELSE << >>],
    glitch |->
      [enabled |-> on("glitch"), intensity |-> I("glitch"),
       chromatic_aberration |-> 3 + I("glitch"),
       rgb_split |-> 20 + 6 * I("glitch"),                    \* tenths of a pixel
       scan_lines |-> I("glitch") > 3,
       scan_line_opacity |-> 5 + I("glitch"),                 \* hundredths
       slice_displacement |-> I("glitch") > 4,
       triggers |->
         IF on("glitch") THEN GlitchTriggers(onsets, I("glitch")) ELSE << >>],
    ripple_wave |->
      [enabled |-> on("ripple_wave"), intensity |-> I("ripple_wave"),
       center_x |-> center_x(bounds),
       center_y |-> center_y(bounds),
       wavelength |-> 30 + 4 * (10 - I("ripple_wave")),
       amplitude |-> 50 + 15 * I("ripple_wave"),              \* tenths of a pixel
       speed |-> 150 + 15 * I("ripple_wave"),
       triggers |->
         IF on("ripple_wave")
         THEN Triggers(SelectSeq(beats, LAMBDA b : b.strength >= 5), I("ripple_wave"))
         ELSE << >>],
    film_grain |->
      [enabled |-> on("film_grain"), intensity |-> I("film_grain"),
       grain_size |-> 10 + 2 * I("film_grain"),               \* tenths
       color_variation |-> 50 + 15 * I("film_grain")],        \* thousandths
    strobe_flash |->
      [enabled |-> on("strobe_flash"), intensity |-> I("strobe_flash"),
       flash_duration |-> 18 + 3 * I("strobe_flash"),         \* ticks
       color |-> <<255, 255, 255>>,
       triggers |->
         IF on("strobe_flash")
         THEN LET kept == SelectSeq(beats, LAMBDA b : b.strength >= 8)
              IN  [k \in 1..Len(kept) |-> kept[k].time]
         ELSE << >>],
    vignette_pulse |->
      [enabled |-> on("vignette_pulse"), intensity |-> I("vignette_pulse"),
       base_strength |-> 20 + 2 * I("vignette_pulse"),        \* hundredths
       pulse_strength |-> 10 + 2 * I("vignette_pulse"),       \* hundredths
       triggers |->
         IF on("vignette_pulse")
         THEN Triggers(beats, I("vignette_pulse"))
         ELSE << >>],
    background_dim |->
      [enabled |-> on("background_dim"), intensity |-> I("background_dim"),
       dim_amount |-> 20 + 4 * I("background_dim"),           \* hundredths
       blur_amount |-> 10 + 4 * I("background_dim")] ]        \* tenths

\* the trigger list of an effect's parameter record (none for the four
\* effects that have no triggers)
TriggerList(params, e) ==
  IF e \in {"element_glow", "neon_outline"} THEN params[e].pulse_triggers
  ELSE IF e \in TriggeredEffects THEN params[e].triggers
  ELSE << >>

(***************************************************************************)
(* Temporal envelope evaluator: effect_engine.get_effect_value_at_time     *)
(***************************************************************************)
\* "for trigger_time, strength in triggers: dt = time - trigger_time;
\*  if 0 <= dt < window": the positions of the triggers within their window
InWindow(triggers, time, window) ==
  { j \in 1..Len(triggers) :
      /\ 0 <= time - triggers[j].time
      /\ time - triggers[j].time < window }

\* denominators of the evaluated envelopes
GlowDen     == 10 * 10 * 150 * 100
ScaleDen    == 8100 * 1000 * 100
OutlineDen  == 10 * 2 * 396 * 100
FlareDen    == 10 * 210 * 100
VignetteDen == 100 * 150 * 100

\* element_glow_intensity with the window cut at 0.25 s, before the decay
\* has come down
GlowValueCutShort(glow, time) ==
  LET glow_intensity(dt, strength) ==
        LET pulse == IF dt < 30 THEN 5 * dt * strength
                                ELSE (180 - dt) * strength
        IN  45000 + 7 * pulse
  IN  MaxOf({45000} \cup
            { glow_intensity(time - glow.pulse_triggers[k].time,
                             glow.pulse_triggers[k].strength) :
                k \in InWindow(glow.pulse_triggers, time, 150) })
        * glow.intensity

\* element_glow_intensity over GlowDen: base 0.3, attack 0.05 s, window 0.3 s
GlowValue(glow, time) ==
  LET glow_intensity(dt, strength) ==
        LET pulse == IF dt < 30 THEN 5 * dt * strength
                                ELSE (180 - dt) * strength     \* over 150 * 100
        IN  45000 + 7 * pulse                                  \* over 10 * 150 * 100
  IN  MaxOf({45000} \cup
            { glow_intensity(time - glow.pulse_triggers[k].time,
                             glow.pulse_triggers[k].strength) :
                k \in InWindow(glow.pulse_triggers, time, 180) })
        * glow.intensity

\* element_scale with the pulses of the triggers added up
ScaleValueSummed(scale, time) ==
  LET range == scale.max_scale - scale.base_scale
      base == scale.base_scale * 8100 * 100
      scale_add(dt, strength) ==
        IF dt < 30
        THEN 270 * dt * range * strength
        ELSE (8100 - (dt - 30) * (dt - 30)) * range * strength
      total[n \in 0..Len(scale.triggers)] ==
        IF n = 0 THEN 0
        ELSE total[n - 1]
               + (IF n \in InWindow(scale.triggers, time, 120)
                  THEN scale_add(time - scale.triggers[n].time,
                                 scale.triggers[n].strength)
                  ELSE 0)
  IN  base + total[Len(scale.triggers)]

\* element_scale without the attack ramp: the full pulse from dt = 0
ScaleValueNoAttack(scale, time) ==
  LET range == scale.max_scale - scale.base_scale
      base == scale.base_scale * 8100 * 100
      current(dt, strength) ==
        LET scale_add ==
              IF dt < 30
              THEN 8100 * range * strength
              ELSE (8100 - (dt - 30) * (dt - 30)) * range * strength
        IN  base + scale_add
  IN  MaxOf({base} \cup
            { current(time - scale.triggers[k].time,
                      scale.triggers[k].strength) :
                k \in InWindow(scale.triggers, time, 120) })

\* element_scale over ScaleDen: attack 0.05 s, ease-out decay, window 0.2 s
ScaleValue(scale, time) ==
  LET range == scale.max_scale - scale.base_scale
      base == scale.base_scale * 8100 * 100
      current(dt, strength) ==
        LET scale_add ==
              IF dt < 30
              THEN 270 * dt * range * strength
              ELSE (8100 - (dt - 30) * (dt - 30)) * range * strength
        IN  base + scale_add
  IN  MaxOf({base} \cup
            { current(time - scale.triggers[k].time,
                      scale.triggers[k].strength) :
                k \in InWindow(scale.triggers, time, 120) })

\* neon_outline_intensity over OutlineDen: base 0.5, attack 0.03 s, window 0.25 s
OutlineValue(outline, time) ==
  LET outline_intensity(dt, strength) ==
        LET pulse == IF dt < 18 THEN 22 * dt ELSE 3 * (150 - dt)   \* over 396
        IN  39600 + pulse * strength                           \* over 2 * 396 * 100
  IN  MaxOf({39600} \cup
            { outline_intensity(time - outline.pulse_triggers[k].time,
                                outline.pulse_triggers[k].strength) :
                k \in InWindow(outline.pulse_triggers, time, 150) })
        * outline.intensity

\* light_flares_intensity over FlareDen: attack 0.05 s, window 0.4 s
FlareValue(flares, time) ==
  LET flare_intensity(dt, strength) ==
        LET pulse == IF dt < 30 THEN 7 * dt ELSE 240 - dt      \* over 210
        IN  pulse * strength
  IN  MaxOf({0} \cup
            { flare_intensity(time - flares.triggers[k].time,
                              flares.triggers[k].strength) :
                k \in InWindow(flares.triggers, time, 240) }) * flares.intensity

\* vignette_strength over VignetteDen: attack 0.05 s, window 0.3 s
VignetteValue(vignette, time) ==
  LET base == vignette.base_strength * 150 * 100
      vignette_strength(dt, strength) ==
        LET pulse == IF dt < 30 THEN 5 * dt ELSE 180 - dt      \* over 150
        IN  base + vignette.pulse_strength * pulse * strength
  IN  MaxOf({base} \cup
            { vignette_strength(time - vignette.triggers[k].time,
                                vignette.triggers[k].strength) :
                k \in InWindow(vignette.triggers, time, 180) })

\* the active bursts, in trigger-list order.  progress = dt / lifetime is
\* kept as the pair (dt, lifetime).  "trigger" is a history field (the
\* position of the trigger in the parameter record): the code's dictionary
\* has no such key and no modelled code reads it.
ActiveBursts(burst, time) ==
  LET active == SelectSeq([k \in 1..Len(burst.triggers) |-> k],
                  LAMBDA k : /\ 0 <= time - burst.triggers[k].time
                             /\ time - burst.triggers[k].time < burst.lifetime)
  IN  [j \in 1..Len(active) |->
         [dt |-> time - burst.triggers[active[j]].time,
          lifetime |-> burst.lifetime,
          strength |-> burst.triggers[active[j]].strength,
          origin_x |-> burst.origin_x,
          origin_y |-> burst.origin_y,
          trigger |-> active[j]]]

\* the active ripples (2 s each): radius in pixel-ticks, amplitude over
\* 10 * 100 * 1200
ActiveRipples(ripple, time) ==
  LET active == SelectSeq(ripple.triggers,
                  LAMBDA tr : 0 <= time - tr.time /\ time - tr.time < 1200)
  IN  [j \in 1..Len(active) |->
         LET dt == time - active[j].time
         IN  [radius |-> dt * ripple.speed,
              amplitude |-> ripple.amplitude * active[j].strength * (1200 - dt),
              wavelength |-> ripple.wavelength,
              center_x |-> ripple.center_x,
              center_y |-> ripple.center_y]]

\* the first glitch trigger whose window holds time, or 0
GlitchHit(glitch, time) ==
  LET hits == { k \in 1..Len(glitch.triggers) :
                  /\ glitch.triggers[k].time <= time
                  /\ time < glitch.triggers[k].time + glitch.triggers[k].duration }
  IN  IF hits = {} THEN 0 ELSE CHOOSE k \in hits : \A j \in hits : k <= j

\* the flash window closed at its end: "time <= trigger_time + flash_duration"
StrobeHitClosed(strobe, time) ==
  \E k \in 1..Len(strobe.triggers) :
    /\ strobe.triggers[k] <= time
    /\ time <= strobe.triggers[k] + strobe.flash_duration

\* "trigger_time <= time < trigger_time + strobe.flash_duration" for some trigger
StrobeHit(strobe, time) ==
  \E k \in 1..Len(strobe.triggers) :
    /\ strobe.triggers[k] <= time
    /\ time < strobe.triggers[k] + strobe.flash_duration

\* the keys each effect contributes to the returned dictionary
GlowEval(glow, time) ==
  IF glow.enabled
  THEN [element_glow_intensity |-> GlowValue(glow, time),
        element_glow_radius |-> glow.radius,
        element_glow_color |-> glow.color]
  ELSE [element_glow_intensity |-> 0]

ScaleEval(scale, time) ==
  IF scale.enabled
  THEN [element_scale |-> ScaleValue(scale, time)]
  ELSE [element_scale |-> ScaleDen]

OutlineEval(outline, time) ==
  IF outline.enabled
  THEN [neon_outline_intensity |-> OutlineValue(outline, time),
        neon_outline_color |-> outline.color,
        neon_outline_width |-> outline.width,
        neon_outline_glow |-> outline.glow_radius]
  ELSE [neon_outline_intensity |-> 0]

EchoEval(echo) ==
  [echo_trail_enabled |-> echo.enabled,
   echo_trail_count |-> IF echo.enabled THEN echo.trail_count ELSE 0,
   echo_trail_spacing |-> echo.trail_spacing,
   echo_trail_decay |-> echo.opacity_decay,
   echo_trail_intensity |-> IF echo.enabled THEN echo.intensity ELSE 0]

BurstEval(burst, time) ==
  IF burst.enabled
  THEN [particle_bursts |-> ActiveBursts(burst, time),
        particle_burst_params |->
          [count |-> burst.particle_count,
           colors |-> burst.colors,
           size_range |-> burst.size_range,
           speed |-> burst.speed,
           intensity |-> burst.intensity]]
  ELSE [particle_bursts |-> << >>]

TrailsEval(trails, time) ==
  IF trails.enabled
  THEN [energy_trails_enabled |-> TRUE,
        energy_trails_params |->
          [count |-> trails.trail_count,
           colors |-> trails.colors,
           width |-> trails.width,
           orbit_radius |-> trails.orbit_radius,
           speed |-> trails.speed,
           center_x |-> trails.center_x,
           center_y |-> trails.center_y,
           time |-> time,
           intensity |-> trails.intensity]]
  ELSE [energy_trails_enabled |-> FALSE]

FlaresEval(flares, time) ==
  IF flares.enabled
  THEN [light_flares_intensity |-> FlareValue(flares, time),
        light_flares_points |-> flares.flare_points,
        light_flares_size |-> flares.size,
        light_flares_colors |-> flares.colors]
  ELSE [light_flares_intensity |-> 0]

GlitchEval(glitch, time) ==
  IF glitch.enabled
  THEN LET hit == GlitchHit(glitch, time)
           glitch_active == hit # 0
           glitch_intensity ==
             IF glitch_active THEN glitch.triggers[hit].strength ELSE 0
       IN  [glitch_active |-> glitch_active,
            glitch_intensity |-> glitch_intensity,
            glitch_chromatic |->
              IF glitch_active
              THEN glitch.chromatic_aberration * glitch_intensity ELSE 0,
            glitch_rgb_split |->
              IF glitch_active THEN glitch.rgb_split * glitch_intensity ELSE 0,
            glitch_scan_lines |-> glitch.scan_lines /\ glitch_active,
            glitch_scan_opacity |->
              IF glitch_active THEN glitch.scan_line_opacity ELSE 0,
            glitch_slice |-> glitch.slice_displacement /\ glitch_active]
  ELSE [glitch_active |-> FALSE, glitch_intensity |-> 0]

RippleEval(ripple, time) ==
  IF ripple.enabled
  THEN [ripple_waves |-> ActiveRipples(ripple, time),
        ripple_intensity |-> ripple.intensity]
  ELSE [ripple_waves |-> << >>]

GrainEval(grain) ==
  [film_grain_enabled |-> grain.enabled,
   film_grain_intensity |-> IF grain.enabled THEN grain.intensity ELSE 0,
   film_grain_size |-> grain.grain_size,
   film_grain_color_var |-> grain.color_variation]

StrobeEval(strobe, time) ==
  IF strobe.enabled
  THEN LET flash_active == StrobeHit(strobe, time)
       IN  [strobe_active |-> flash_active,
            strobe_intensity |-> IF flash_active THEN strobe.intensity ELSE 0,
            strobe_color |-> strobe.color]
  ELSE [strobe_active |-> FALSE, strobe_intensity |-> 0]

\* the vignette evaluated without looking at "enabled"
VignetteEvalAlways(vignette, time) ==
  [vignette_strength |-> VignetteValue(vignette, time)]

VignetteEval(vignette, time) ==
  IF vignette.enabled
  THEN [vignette_strength |-> VignetteValue(vignette, time)]
  ELSE [vignette_strength |-> 0]

\* the background dim evaluated without looking at "enabled"
DimEvalAlways(bg_dim) ==
  [background_dim_enabled |-> TRUE,
   background_dim_amount |-> bg_dim.dim_amount,
   background_blur |-> bg_dim.blur_amount]

\* background_dim_amount in hundredths, background_blur in tenths
DimEval(bg_dim) ==
  [background_dim_enabled |-> bg_dim.enabled,
   background_dim_amount |-> IF bg_dim.enabled THEN bg_dim.dim_amount ELSE 0,
   background_blur |-> IF bg_dim.enabled THEN bg_dim.blur_amount ELSE 0]

BoundsEval(subject_bounds) ==
  [subject_bounds |->
     [x |-> subject_bounds.x,
      y |-> subject_bounds.y,
      w |-> subject_bounds.w,
      h |-> subject_bounds.h,
      center_x |-> center_x(subject_bounds),
      center_y |-> center_y(subject_bounds)]]

get_effect_value_at_time(effect_params, time) ==
  GlowEval(effect_params.element_glow, time)
  @@ ScaleEval(effect_params.element_scale, time)
  @@ OutlineEval(effect_params.neon_outline, time)
  @@ EchoEval(effect_params.echo_trail)
  @@ BurstEval(effect_params.particle_burst, time)
  @@ TrailsEval(effect_params.energy_trails, time)
  @@ FlaresEval(effect_params.light_flares, time)
  @@ GlitchEval(effect_params.glitch, time)
  @@ RippleEval(effect_params.ripple_wave, time)
  @@ GrainEval(effect_params.film_grain)
  @@ StrobeEval(effect_params.strobe_flash, time)
  @@ VignetteEval(effect_params.vignette_pulse, time)
  @@ DimEval(effect_params.background_dim)
  @@ BoundsEval(effect_params.subject_bounds)

\* dict.get(key, default)
Get(d, key, default) == IF key \in DOMAIN d THEN d[key] ELSE default

(***************************************************************************)
(* Particle system: video_renderer.ParticleSystem                          *)
(***************************************************************************)
\* random.random().  The generator is seeded once per process and never
\* reseeded, so a run's draws are a function of the seed and of how many
\* draws were made before; the seed is not known.  A draw is a level r in
\* 0..RandLevels-1, standing for the value r / RandLevels of [0, 1).
Seeds == 0..(2 * RandLevels - 1)
Rand(seed, n) ==
  (seed + n + (n \div DrawsPerParticle) * (seed \div RandLevels)) % RandLevels

\* a particle lifetime is a numerator over LifeDen, in ticks
LifeDen == 20 * RandLevels

\* the jitter upwards of the requested lifetime: lifetime * (1.0 + r * 0.3)
JitteredUpwards(lifetime, r) == lifetime * (20 * RandLevels + 6 * r)

\* the jitter centred on the requested lifetime: lifetime * (0.85 + r * 0.3)
JitteredAround(lifetime, r) == lifetime * (17 * RandLevels + 6 * r)

\* lifetime * (0.7 + random.random() * 0.3), over LifeDen
JitteredLifetime(lifetime, r) == lifetime * (14 * RandLevels + 6 * r)

\* one Particle(...) of spawn_burst_from_bounds, d draws after the seed: six
\* draws, in the order the code evaluates them.  A particle keeps the bounds
\* whose ellipse it was spawned on and what was drawn for it; "steps" counts
\* the integration steps update has applied to it (position and velocity are
\* a function of the spawn values and of these steps).
NewParticle(rseed, d, bounds, lifetime, time) ==
  [bounds |-> bounds,
   angle |-> Rand(rseed, d),
   velocity |-> Rand(rseed, d + 1),
   size |-> Rand(rseed, d + 2),
   color |-> Rand(rseed, d + 3),
   alpha |-> Rand(rseed, d + 4),
   birth_time |-> time,
   lifetime |-> JitteredLifetime(lifetime, Rand(rseed, d + 5)),
   steps |-> 0]

\* consecutive calls of spawn_burst_from_bounds, one per element of calls
\* (the bounds of each call), with the same count, lifetime and time: the
\* n-th particle appended takes draws (n-1)*6 .. (n-1)*6 + 5 after "drawn"
SpawnCalls(ps, rseed, drawn, calls, count, lifetime, time) ==
  IF calls = << >> THEN ps
  ELSE ps \o [n \in 1..(Len(calls) * count) |->
                NewParticle(rseed, drawn + (n - 1) * DrawsPerParticle,
                            calls[((n - 1) \div count) + 1], lifetime, time)]

\* spawn_burst_from_bounds: count particles appended
spawn_burst_from_bounds(ps, rseed, drawn, bounds, count, lifetime, time) ==
  SpawnCalls(ps, rseed, drawn, <<bounds>>, count, lifetime, time)

\* "age <= p.lifetime"
AliveInclusive(p, time) == (time - p.birth_time) * LifeDen <= p.lifetime

\* "age < p.lifetime", age = time - p.birth_time
Alive(p, time) == (time - p.birth_time) * LifeDen < p.lifetime

\* ParticleSystem.update: the particles still alive, each moved one step
update(particles, time) ==
  LET alive == SelectSeq(particles, LAMBDA p : Alive(p, time))
  IN  [k \in 1..Len(alive) |-> [alive[k] EXCEPT !.steps = @ + 1]]

(***************************************************************************)
(* State                                                                   *)
(***************************************************************************)
VARIABLES
  toggles,          \* the EffectToggles the parameters were built from
  effect_params,    \* EffectParameters, built once and never changed
  fps,              \* render_settings.fps
  total_frames,     \* int(duration * fps)
  pc,               \* "frames", "encode", "done", "failed"; "idle" outside a render
  frame_num,        \* the next frame of the loop
  now,              \* time of the last evaluation / update, in ticks
  values,           \* what get_effect_value_at_time returned last
  applied,          \* layers applied to the last frame, in order
  echo_frames,      \* the echo buffer: snapshots [index, layers]
  previous_bursts,  \* burst ids already spawned
  particles,        \* particle_system.particles
  seed, draws,      \* the random generator: its seed, draws made so far
  spawned,          \* history: spawn calls made for each burst trigger
  spawn_calls,      \* history: the arguments of each spawn_burst_from_bounds call
  progress,         \* last value given to progress_callback, over 100 * total_frames
  returncode,       \* the encoder's exit status, -1 before it ran
  ops,              \* calls made so far (particle-system specification)
  audio_features,   \* the AudioFeatures given to the builder (builder specification)
  image_context,    \* the ImageContext given to the builder, or none
  previous_params,  \* history: what the builder returned the call before
  encoder_runs,     \* history: times subprocess.run started the encoder
  result,           \* the CompletedProcess: what the encoder wrote to stderr and stdout
  raised,           \* the exception render_video ended with, if any
  returned,         \* the path render_video returned, "" while it has not
  twin_particles,   \* the particles of a second render of the same inputs
  twin_seed,        \* the seed of the second render's generator
  twin_draws,       \* draws the second render has made
  jobs,             \* concurrent renders: the locals of each render_video call (jobs specification)
  layer_call,       \* the last call of a layer function: its arguments and what it did (layers specification)
  progress_calls,   \* history: the values given to progress_callback, in order
  written,          \* history: the indices of the frames saved, in order
  echoes,           \* the echoes composited beneath the last frame: [index, age, alpha], in drawing order
  sessions,         \* main.sessions: the session table, session id -> SessionData
  session_lock,     \* main.session_lock: "free" or "held" (by a task)
  next_session,     \* the next fresh session id (uuid4 never repeats)
  uploads,          \* upload handlers suspended at await file.read()
  tasks,            \* background render / export task of each session
  cleanup,          \* cleanup_expired_sessions: running flag and ids still to remove
  key_errors,       \* KeyErrors raised by sessions[session_id]
  op                \* the last operation taken

\* cleanup_expired_sessions is not running
NoCleanup == [running |-> FALSE, expired |-> {}]

vars == <<toggles, effect_params, fps, total_frames, pc, frame_num, now, values,
          applied, echo_frames, previous_bursts, particles, seed, draws, spawned,
          spawn_calls, progress, returncode, ops, op,
          audio_features, image_context, previous_params,
          encoder_runs, result, raised, returned,
          twin_particles, twin_seed, twin_draws,
          jobs,
          layer_call,
          progress_calls, written,
          echoes,
          sessions, session_lock, next_session, uploads, tasks, cleanup, key_errors>>

(***************************************************************************)
(* The frame loop of video_renderer.render_video                           *)
(***************************************************************************)
\* apply_background_dim: "if dim_amount < 0.01 and blur_amount < 0.1: return
\* image", else the frame with the background dimmed and blurred
apply_background_dim(frame, dim_amount, blur_amount) ==
  IF dim_amount < 1 /\ blur_amount < 1 THEN frame
  ELSE Append(frame, "background_dim")

\* layers 1-5 of one frame, in the order the loop applies them
LayersBeforeEcho(effects) ==
  (IF Get(effects, "background_dim_enabled", FALSE)
   THEN apply_background_dim(<< >>, Get(effects, "background_dim_amount", 0),
                             Get(effects, "background_blur", 0))
   ELSE << >>)
  \o [k \in 1..Len(Get(effects, "ripple_waves", << >>)) |-> "ripple_wave"]
  \o (LET scale == Get(effects, "element_scale", ScaleDen)
          diff == IF scale >= ScaleDen THEN scale - ScaleDen ELSE ScaleDen - scale
      IN  IF diff > ScaleDen \div 1000 THEN <<"element_scale">> ELSE << >>)
  \o (IF Get(effects, "element_glow_intensity", 0) * 100 > GlowDen
      THEN <<"element_glow">> ELSE << >>)
  \o (IF Get(effects, "neon_outline_intensity", 0) * 100 > OutlineDen
      THEN <<"neon_outline">> ELSE << >>)

\* layer 6, the echo overlay
EchoLayer(effects) ==
  IF Get(effects, "echo_trail_enabled", FALSE) THEN <<"echo_trail">> ELSE << >>

\* the copy taken one step late, with the echo overlay already on the frame
SnapshotAfterEcho(index, before, effects) ==
  [index |-> index, layers |-> before \o EchoLayer(effects)]

\* "frame.copy()" at the capture step: the working frame as it is then,
\* whatever the frame's effect values are
Snapshot(index, before, effects) == [index |-> index, layers |-> before]

\* the capture step with "pop()" for "pop(0)": the newest snapshot goes
EchoCapturePopLast(frames, effects, snapshot) ==
  IF Get(effects, "echo_trail_enabled", FALSE)
  THEN LET pushed == Append(frames, snapshot)
           max_frames == Get(effects, "echo_trail_count", 5) + 2
       IN  IF Len(pushed) > max_frames
           THEN SubSeq(pushed, 1, Len(pushed) - 1) ELSE pushed
  ELSE << >>

\* alpha = intensity * (decay ** age), in millionths: intensity in tenths,
\* decay in hundredths, rounded down at each factor
EchoAlpha(intensity, decay, age) ==
  LET a[k \in 0..age] == IF k = 0 THEN intensity * 100000
                                  ELSE (a[k - 1] * decay) \div 100
  IN  a[age]

\* echo_frames[-trail_count:]  (the whole list for a count of 0)
LastFrames(frames, count) ==
  IF count = 0 \/ count >= Len(frames) THEN frames
  ELSE SubSeq(frames, Len(frames) - count + 1, Len(frames))

\* apply_echo_trail(image, echo_frames, trail_count, decay, intensity): the
\* echoes composited beneath the image, in the order they are drawn; an
\* echo whose alpha is below 0.03 is skipped
apply_echo_trail(frames, trail_count, decay, intensity) ==
  IF frames = << >> \/ intensity <= 0 THEN << >>
  ELSE LET frames_to_use == LastFrames(frames, trail_count)
           count == Len(frames_to_use)
           drawn == [i \in 1..count |->
                       [index |-> frames_to_use[i].index,
                        age |-> count - i + 1,
                        alpha |-> EchoAlpha(intensity, decay, count - i + 1)]]
       IN  SelectSeq(drawn, LAMBDA e : e.alpha >= 30000)

\* the call of layer 6 given the whole buffer, the frame's own copy included
EchoCompositeWithCurrent(captured, effects) ==
  IF Get(effects, "echo_trail_enabled", FALSE)
  THEN apply_echo_trail(captured,
                        Get(effects, "echo_trail_count", 5),
                        Get(effects, "echo_trail_decay", 70),
                        Get(effects, "echo_trail_intensity", 5))
  ELSE << >>

\* layer 6: apply_echo_trail(frame, echo_frames[:-1], count, decay, intensity)
EchoComposite(captured, effects) ==
  IF Get(effects, "echo_trail_enabled", FALSE)
  THEN apply_echo_trail(SubSeq(captured, 1, Len(captured) - 1),
                        Get(effects, "echo_trail_count", 5),
                        Get(effects, "echo_trail_decay", 70),
                        Get(effects, "echo_trail_intensity", 5))
  ELSE << >>

\* the echo buffer after the capture step of layer 6
EchoCapture(frames, effects, snapshot) ==
  IF Get(effects, "echo_trail_enabled", FALSE)
  THEN LET pushed == Append(frames, snapshot)
           max_frames == Get(effects, "echo_trail_count", 5) + 2
       IN  IF Len(pushed) > max_frames THEN Tail(pushed) ELSE pushed
  ELSE << >>

\* layers 8-13 with the film grain applied ahead of the glitch
LayersAfterParticlesGrainFirst(effects) ==
  (IF Get(effects, "energy_trails_enabled", FALSE)
   THEN <<"energy_trails">> ELSE << >>)
  \o (IF Get(effects, "light_flares_intensity", 0) * 100 > FlareDen
      THEN <<"light_flares">> ELSE << >>)
  \o (IF Get(effects, "film_grain_enabled", FALSE) THEN <<"film_grain">> ELSE << >>)
  \o (IF Get(effects, "glitch_active", FALSE) THEN <<"glitch">> ELSE << >>)
  \o (IF Get(effects, "strobe_active", FALSE) THEN <<"strobe_flash">> ELSE << >>)
  \o (IF Get(effects, "vignette_strength", 0) * 100 > VignetteDen
      THEN <<"vignette_pulse">> ELSE << >>)

\* layers 8-13
LayersAfterParticles(effects) ==
  (IF Get(effects, "energy_trails_enabled", FALSE)
   THEN <<"energy_trails">> ELSE << >>)
  \o (IF Get(effects, "light_flares_intensity", 0) * 100 > FlareDen
      THEN <<"light_flares">> ELSE << >>)
  \o (IF Get(effects, "glitch_active", FALSE) THEN <<"glitch">> ELSE << >>)
  \o (IF Get(effects, "film_grain_enabled", FALSE) THEN <<"film_grain">> ELSE << >>)
  \o (IF Get(effects, "strobe_active", FALSE) THEN <<"strobe_flash">> ELSE << >>)
  \o (IF Get(effects, "vignette_strength", 0) * 100 > VignetteDen
      THEN <<"vignette_pulse">> ELSE << >>)

\* burst_id = (burst.get("bounds_x", 0.25), burst.get("bounds_y", 0.25), i),
\* i the 0-based position in this frame's list of active bursts
BurstId(burst, i) == <<Get(burst, "bounds_x", 25), Get(burst, "bounds_y", 25), i>>

\* "burst.get('progress', 0) < 0.1", progress = dt / lifetime
EarlyInBurst(burst) == 10 * burst.dt < burst.lifetime

\* "for i, burst in enumerate(bursts)": the positions (1-based) of the
\* bursts the loop spawns, in order.  The ids the loop adds while it runs
\* differ from every later id of the same frame in their last component, so
\* whether a burst spawns depends on previous_bursts as the frame found it.
SpawnLoop(bursts, ids) ==
  SelectSeq([k \in 1..Len(bursts) |-> k],
            LAMBDA k : /\ EarlyInBurst(bursts[k])
                       /\ BurstId(bursts[k], k - 1) \notin ids)

\* the bounds each spawn call of the frame is given
SpawnBounds(bursts, calls) ==
  [c \in 1..Len(calls) |->
     SubjectBounds(Get(bursts[calls[c]], "bounds_x", 25),
                   Get(bursts[calls[c]], "bounds_y", 25),
                   Get(bursts[calls[c]], "bounds_w", 50),
                   Get(bursts[calls[c]], "bounds_h", 50))]

\* "if len(previous_bursts) > 100: previous_bursts.clear()"
CleanUp(ids) == IF Cardinality(ids) > PreviousBurstsLimit THEN {} ELSE ids

\* time = (frame_num + 1) / fps
FrameTimeOfNext(k) == ((k + 1) * TicksPerSecond) \div fps

\* time = frame_num / fps
FrameTime(k) == (k * TicksPerSecond) \div fps

\* progress_callback((frame_num + 1) / total_frames): the frame counted as
\* done, over the whole range
FrameProgressToOne(k) == 100 * (k + 1)

\* progress_callback(frame_num / total_frames * 0.8), over 100 * total_frames
FrameProgress(k) == 80 * k

\* one iteration of "for frame_num in range(total_frames)"
RenderFrame ==
  /\ pc = "frames"
  /\ frame_num < total_frames
  /\ \E time \in {FrameTime(frame_num)} :
     \E effects \in {get_effect_value_at_time(effect_params, time)} :
     \E bursts \in {Get(effects, "particle_bursts", << >>)} :
     \E burst_params \in {Get(effects, "particle_burst_params", << >>)} :
     \E calls \in {SpawnLoop(bursts, previous_bursts)} :
     \E before \in {LayersBeforeEcho(effects)} :
       /\ now' = time
       /\ values' = effects
       /\ echo_frames' =
            EchoCapture(echo_frames, effects, Snapshot(frame_num, before, effects))
       /\ echoes' =
            EchoComposite(EchoCapture(echo_frames, effects,
                                      Snapshot(frame_num, before, effects)),
                          effects)
       /\ particles' =
            update(SpawnCalls(particles, seed, draws, SpawnBounds(bursts, calls),
                              Get(burst_params, "count", DefaultBurstCount),
                              Get(burst_params, "lifetime", DefaultBurstLifetime),
                              time),
                   time)
       /\ draws' = draws + Len(calls) * Get(burst_params, "count", DefaultBurstCount)
                                      * DrawsPerParticle
       /\ spawned' =
            [k \in DOMAIN spawned |->
               spawned[k]
                 + Cardinality({c \in 1..Len(calls) : bursts[calls[c]].trigger = k})]
       /\ spawn_calls' =
            spawn_calls \o
            [c \in 1..Len(calls) |->
               [bounds |-> SpawnBounds(bursts, calls)[c],
                count |-> Get(burst_params, "count", DefaultBurstCount),
                lifetime |-> Get(burst_params, "lifetime", DefaultBurstLifetime),
                time |-> time]]
       /\ previous_bursts' =
            CleanUp(previous_bursts
                      \cup {BurstId(bursts[calls[c]], calls[c] - 1) : c \in 1..Len(calls)})
       /\ applied' = before \o EchoLayer(effects) \o <<"particle_burst">>
                       \o LayersAfterParticles(effects)
       /\ progress' = FrameProgress(frame_num)
       /\ progress_calls' = Append(progress_calls, FrameProgress(frame_num))
       /\ written' = Append(written, frame_num)
  /\ frame_num' = frame_num + 1
  /\ op' = "frame"
  /\ UNCHANGED <<toggles, effect_params, fps, total_frames, pc, seed, returncode, ops,
                 audio_features, image_context, previous_params,
                 encoder_runs, result, raised, returned,
                 twin_particles, twin_seed, twin_draws,
                 jobs,
                 layer_call,
                 sessions, session_lock, next_session, uploads, tasks, cleanup, key_errors>>

\* after the loop: progress_callback(0.85), then the encoder is started
StartEncode ==
  /\ pc = "frames"
  /\ frame_num = total_frames
  /\ progress' = 85 * total_frames
  /\ progress_calls' = Append(progress_calls, 85 * total_frames)
  /\ pc' = "encode"
  /\ op' = "encode"
  /\ UNCHANGED <<toggles, effect_params, fps, total_frames, frame_num, now, values,
                 applied, echo_frames, previous_bursts, particles, seed, draws,
                 spawned, spawn_calls, returncode, ops,
                 audio_features, image_context, previous_params,
                 encoder_runs, result, raised, returned,
                 twin_particles, twin_seed, twin_draws,
                 jobs,
                 layer_call, written,
                 echoes,
                 sessions, session_lock, next_session, uploads, tasks, cleanup, key_errors>>

\* what the encoder may exit with and write: status 0, or a status other
\* than 0 with text on both streams, on stdout alone, or on neither
EncoderResults ==
  { [returncode |-> 0, stderr |-> "", stdout |-> ""],
    [returncode |-> 234, stderr |-> "Conversion failed!", stdout |-> "frame=   18 fps=0.0"],
    [returncode |-> 1, stderr |-> "", stdout |-> "frame=   18 fps=0.0"],
    [returncode |-> 1, stderr |-> "", stdout |-> ""] }
OutputPath == "export.mp4"

NoResult == [stderr |-> "", stdout |-> ""]
NoError == [type |-> "none", exit_code |-> 0, text |-> ""]

\* "result.stderr or result.stdout or "Unknown FFmpeg error"" with the two
\* streams the other way round
error_msg_stdout_first(stderr, stdout) ==
  IF stdout # "" THEN stdout
  ELSE IF stderr # "" THEN stderr
  ELSE "Unknown FFmpeg error"

\* "error_msg = result.stderr or result.stdout or "Unknown FFmpeg error""
error_msg(stderr, stdout) ==
  IF stderr # "" THEN stderr
  ELSE IF stdout # "" THEN stdout
  ELSE "Unknown FFmpeg error"

\* RuntimeError(f"FFmpeg failed (exit code {result.returncode}): {error_msg}"):
\* the status and the text are the two parts of the message that vary
RuntimeError(code, text) ==
  [type |-> "RuntimeError", exit_code |-> code, text |-> text]

\* subprocess.run returns: exit status 0, or not; a non-zero status raises,
\* status 0 reports progress 1.0 and returns output_path
EncoderExit ==
  /\ pc = "encode"
  /\ encoder_runs' = encoder_runs + 1
  /\ \E completed \in EncoderResults :
     \E rc \in {completed.returncode} :
     \E stderr \in {completed.stderr}, stdout \in {completed.stdout} :
       /\ returncode' = rc
       /\ result' = [stderr |-> stderr, stdout |-> stdout]
       /\ pc' = IF rc = 0 THEN "done" ELSE "failed"
       /\ raised' = IF rc # 0 THEN RuntimeError(rc, error_msg(stderr, stdout))
                              ELSE raised
       /\ progress' = IF rc = 0 THEN 100 * total_frames ELSE progress
       /\ progress_calls' = IF rc = 0 THEN Append(progress_calls, 100 * total_frames)
                                  ELSE progress_calls
       /\ returned' = IF rc = 0 THEN OutputPath ELSE returned
  /\ op' = "exit"
  /\ UNCHANGED <<toggles, effect_params, fps, total_frames, frame_num, now, values,
                 applied, echo_frames, previous_bursts, particles, seed, draws,
                 spawned, spawn_calls, ops,
                 audio_features, image_context, previous_params,
                 twin_particles, twin_seed, twin_draws,
                 jobs,
                 layer_call, written,
                 echoes,
                 sessions, session_lock, next_session, uploads, tasks, cleanup, key_errors>>

(***************************************************************************)
(* Enumerated inputs                                                       *)
(***************************************************************************)
\* beat times in ticks: on a frame of both rates, between frames, and late
\* enough (1.5 s) that every earlier burst has expired (lifetime <= 1.4 s)
BeatTimes == {0, 10, 900}
\* audio strengths in tenths, below and above the effects' thresholds
BeatStrengths == {4, 9}
Intensities == {0, 5, 10}

NonDecreasing(s) == \A k \in 1..(Len(s) - 1) : s[k] <= s[k + 1]

\* event lists ordered by time, times not necessarily distinct
EventLists ==
  UNION { { [times |-> t, strengths |-> g] :
              t \in { u \in [1..n -> BeatTimes] : NonDecreasing(u) },
              g \in [1..n -> BeatStrengths] } : n \in 0..MaxBeats }

AudioFeatures(beats, onsets) ==
  [duration |-> DurationTicks,
   beat_times |-> beats.times, beat_strengths |-> beats.strengths,
   onset_times |-> onsets.times, onset_strengths |-> onsets.strengths]

\* a dense cluster: more strong beats on one timestamp than previous_bursts
\* holds before it is cleared
ClusterSize == PreviousBurstsLimit + 1
Cluster ==
  [times |-> [k \in 1..ClusterSize |-> 0], strengths |-> [k \in 1..ClusterSize |-> 9]]

\* EffectToggles() defaults: video_renderer is given what the caller built
DefaultOn ==
  {"element_glow", "element_scale", "particle_burst", "vignette_pulse",
   "background_dim"}

TogglesOf(enabled, intensity) ==
  [e \in Effects |-> EffectToggle(e \in enabled, intensity)]

\* renders: onsets taken at the beats
RenderFeatures == { AudioFeatures(b, b) : b \in EventLists \cup {Cluster} }
RenderToggles ==
  { TogglesOf(on, i) : on \in {DefaultOn, Effects}, i \in Intensities }
  \cup { TogglesOf({}, 5), TogglesOf(Effects \ {"background_dim"}, 10) }
RenderSeeds == {RandLevels + 2}

(***************************************************************************)
(* Specification of a render                                               *)
(***************************************************************************)
Init ==
  /\ sessions = << >>
  /\ session_lock = "free"
  /\ next_session = 1
  /\ uploads = {}
  /\ tasks = << >>
  /\ cleanup = NoCleanup
  /\ key_errors = {}
  /\ echoes = << >>
  /\ progress_calls = << >>
  /\ written = << >>
  /\ layer_call = << >>
  /\ jobs = << >>
  /\ twin_particles = << >>
  /\ twin_seed = 0
  /\ twin_draws = 0
  /\ encoder_runs = 0
  /\ result = NoResult
  /\ raised = NoError
  /\ returned = ""
  /\ previous_params = << >>
  /\ toggles \in RenderToggles
  /\ audio_features = << >>
  /\ image_context = NoContext
  /\ \E features \in RenderFeatures :
       effect_params = calculate_effect_parameters(features, toggles, image_context)
  /\ fps \in {24, 30}
  /\ total_frames = (DurationTicks * fps) \div TicksPerSecond
  /\ pc = "frames"
  /\ frame_num = 0
  /\ now = 0
  /\ values = << >>
  /\ applied = << >>
  /\ echo_frames = << >>
  /\ previous_bursts = {}
  /\ particles = << >>
  /\ seed \in RenderSeeds
  /\ draws = 0
  /\ spawned = [k \in 1..Len(effect_params.particle_burst.triggers) |-> 0]
  /\ spawn_calls = << >>
  /\ progress = -1
  /\ returncode = -1
  /\ ops = 0
  /\ op = "init"

Next == RenderFrame \/ StartEncode \/ EncoderExit

Spec == Init /\ [][Next]_vars

(***************************************************************************)
(* Specification of the evaluator: parameters built once, then queried     *)
(***************************************************************************)
\* a beat at 1.0 s and one 0.15 s later, inside the first one's windows
\* beat times in ticks: 1.0 s, 1.15 s (inside the pulse of a beat at 1.0 s), 2.0 s
EvalBeatTimes == {600, 690, 1200}
EvalStrengths == {4, 8, 10}

EvalEventLists ==
  UNION { { [times |-> t, strengths |-> g] :
              t \in { u \in [1..n -> EvalBeatTimes] : NonDecreasing(u) },
              g \in [1..n -> EvalStrengths] } : n \in 0..MaxEvalBeats }

EvalFeatures == { AudioFeatures(b, b) : b \in EvalEventLists }
\* toggle intensities in tenths; at 0.4 a strobe flash lasts 0.05 s
EvalIntensities == Intensities \cup {4}
EvalToggles ==
  { TogglesOf(on, i) : on \in {{}, DefaultOn, Effects}, i \in EvalIntensities }

\* query times: every tick around the first beat's attack, and the ticks
\* around the ends of the pulse windows, of a burst's lifetime (0.8 s, 1.4 s)
\* and of a ripple (2 s)
EvalTimes ==
  {0, 650, 1300} \cup (596..634) \cup (689..691) \cup (718..722)
    \cup (779..781) \cup (809..811) \cup (1198..1202) \cup (1228..1232)
    \cup (839..841) \cup (1079..1081) \cup (1439..1441) \cup (1799..1801)

\* the state outside a render: nothing of the frame loop has run
NoRender ==
  /\ fps = 30
  /\ total_frames = 0
  /\ pc = "idle"
  /\ frame_num = 0
  /\ applied = << >>
  /\ echo_frames = << >>
  /\ previous_bursts = {}
  /\ spawned = << >>
  /\ progress = -1
  /\ returncode = -1

EvalInit ==
  /\ sessions = << >>
  /\ session_lock = "free"
  /\ next_session = 1
  /\ uploads = {}
  /\ tasks = << >>
  /\ cleanup = NoCleanup
  /\ key_errors = {}
  /\ echoes = << >>
  /\ progress_calls = << >>
  /\ written = << >>
  /\ layer_call = << >>
  /\ jobs = << >>
  /\ twin_particles = << >>
  /\ twin_seed = 0
  /\ twin_draws = 0
  /\ encoder_runs = 0
  /\ result = NoResult
  /\ raised = NoError
  /\ returned = ""
  /\ previous_params = << >>
  /\ spawn_calls = << >>
  /\ toggles \in EvalToggles
  /\ audio_features = << >>
  /\ image_context = NoContext
  /\ \E features \in EvalFeatures :
       effect_params = calculate_effect_parameters(features, toggles, image_context)
  /\ NoRender
  /\ now = 0
  /\ values = << >>
  /\ particles = << >>
  /\ seed = 0
  /\ draws = 0
  /\ ops = 0
  /\ op = "init"

\* get_effect_value_at_time(effect_params, t), at a first time or at a time
\* near the last one, earlier or later
Evaluate ==
  /\ \E t \in EvalTimes :
       /\ op = "init" \/ (t - now <= EvalStep /\ now - t <= EvalStep)
       /\ now' = t
       /\ values' = get_effect_value_at_time(effect_params, t)
  /\ op' = "evaluate"
  /\ UNCHANGED <<toggles, effect_params, fps, total_frames, pc, frame_num, applied,
                 echo_frames, previous_bursts, particles, seed, draws, spawned,
                 spawn_calls, progress, returncode, ops,
                 audio_features, image_context, previous_params,
                 encoder_runs, result, raised, returned,
                 twin_particles, twin_seed, twin_draws,
                 jobs,
                 layer_call,
                 progress_calls, written,
                 echoes,
                 sessions, session_lock, next_session, uploads, tasks, cleanup, key_errors>>

EvalNext == Evaluate

SpecEval == EvalInit /\ [][EvalNext]_vars

(***************************************************************************)
(* Specification of the particle system: spawns and updates                *)
(***************************************************************************)
\* requested lifetimes in ticks: 1.0 s, 1.4 s
SpawnLifetimes == {600, 840}
SpawnCounts == {MaxCount, DefaultBurstCount}
\* update times in ticks, from 0 s to 1.5 s
UpdateTimes == {0, 300, 420, 480, 540, 600, 660, 900}

ParticlesInit ==
  /\ sessions = << >>
  /\ session_lock = "free"
  /\ next_session = 1
  /\ uploads = {}
  /\ tasks = << >>
  /\ cleanup = NoCleanup
  /\ key_errors = {}
  /\ echoes = << >>
  /\ progress_calls = << >>
  /\ written = << >>
  /\ layer_call = << >>
  /\ jobs = << >>
  /\ twin_particles = << >>
  /\ twin_seed = 0
  /\ twin_draws = 0
  /\ encoder_runs = 0
  /\ result = NoResult
  /\ raised = NoError
  /\ returned = ""
  /\ previous_params = << >>
  /\ spawn_calls = << >>
  /\ toggles = TogglesOf({}, 0)
  /\ audio_features = << >>
  /\ image_context = NoContext
  /\ effect_params = << >>
  /\ NoRender
  /\ now = 0
  /\ values = << >>
  /\ particles = << >>
  /\ seed \in Seeds
  /\ draws = 0
  /\ ops = 0
  /\ op = "init"

\* particle_system.spawn_burst_from_bounds(..., count, ..., lifetime, time)
Spawn ==
  /\ ops < MaxOps
  /\ \E count \in SpawnCounts, lifetime \in SpawnLifetimes :
       /\ particles' = spawn_burst_from_bounds(particles, seed, draws, DefaultBounds,
                                               count, lifetime, now)
       /\ draws' = draws + count * DrawsPerParticle
       /\ spawn_calls' = Append(spawn_calls,
                                [bounds |-> DefaultBounds, count |-> count,
                                 lifetime |-> lifetime, time |-> now])
  /\ ops' = ops + 1
  /\ op' = "spawn"
  /\ UNCHANGED <<toggles, effect_params, fps, total_frames, pc, frame_num, now,
                 values, applied, echo_frames, previous_bursts, seed, spawned,
                 progress, returncode,
                 audio_features, image_context, previous_params,
                 encoder_runs, result, raised, returned,
                 twin_particles, twin_seed, twin_draws,
                 jobs,
                 layer_call,
                 progress_calls, written,
                 echoes,
                 sessions, session_lock, next_session, uploads, tasks, cleanup, key_errors>>

\* particle_system.update(time, dt), time not before the last one
Update ==
  /\ ops < MaxOps
  /\ \E t \in UpdateTimes :
       /\ t >= now
       /\ now' = t
       /\ particles' = update(particles, t)
  /\ ops' = ops + 1
  /\ op' = "update"
  /\ UNCHANGED <<toggles, effect_params, fps, total_frames, pc, frame_num, values,
                 applied, echo_frames, previous_bursts, seed, draws, spawned,
                 spawn_calls, progress, returncode,
                 audio_features, image_context, previous_params,
                 encoder_runs, result, raised, returned,
                 twin_particles, twin_seed, twin_draws,
                 jobs,
                 layer_call,
                 progress_calls, written,
                 echoes,
                 sessions, session_lock, next_session, uploads, tasks, cleanup, key_errors>>

ParticlesNext == Spawn \/ Update

SpecParticles == ParticlesInit /\ [][ParticlesNext]_vars

(***************************************************************************)
(* Specification of two renders of the same inputs: every particle-system  *)
(* call of the one is made, with the same arguments, by the other.  The    *)
(* module "random" is seeded by the interpreter when it is imported and    *)
(* render_video never seeds it: each render's seed is whatever its process *)
(* started with.                                                           *)
(***************************************************************************)
TwoRunsInit ==
  /\ sessions = << >>
  /\ session_lock = "free"
  /\ next_session = 1
  /\ uploads = {}
  /\ tasks = << >>
  /\ cleanup = NoCleanup
  /\ key_errors = {}
  /\ echoes = << >>
  /\ progress_calls = << >>
  /\ written = << >>
  /\ layer_call = << >>
  /\ jobs = << >>
  /\ encoder_runs = 0
  /\ result = NoResult
  /\ raised = NoError
  /\ returned = ""
  /\ previous_params = << >>
  /\ spawn_calls = << >>
  /\ toggles = TogglesOf({}, 0)
  /\ audio_features = << >>
  /\ image_context = NoContext
  /\ effect_params = << >>
  /\ NoRender
  /\ now = 0
  /\ values = << >>
  /\ particles = << >>
  /\ seed \in Seeds
  /\ draws = 0
  /\ twin_particles = << >>
  /\ twin_seed \in Seeds
  /\ twin_draws = 0
  /\ ops = 0
  /\ op = "init"

\* spawn_burst_from_bounds(..., count, ..., lifetime, time) in both renders
SpawnInBoth ==
  /\ ops < MaxTwinOps
  /\ \E count \in SpawnCounts, lifetime \in SpawnLifetimes :
       /\ particles' = spawn_burst_from_bounds(particles, seed, draws, DefaultBounds,
                                               count, lifetime, now)
       /\ draws' = draws + count * DrawsPerParticle
       /\ twin_particles' = spawn_burst_from_bounds(twin_particles, twin_seed,
                                                    twin_draws, DefaultBounds,
                                                    count, lifetime, now)
       /\ twin_draws' = twin_draws + count * DrawsPerParticle
       /\ spawn_calls' = Append(spawn_calls,
                                [bounds |-> DefaultBounds, count |-> count,
                                 lifetime |-> lifetime, time |-> now])
  /\ ops' = ops + 1
  /\ op' = "spawn"
  /\ UNCHANGED <<toggles, effect_params, fps, total_frames, pc, frame_num, now,
                 values, applied, echo_frames, previous_bursts, seed, spawned,
                 progress, returncode,
                 audio_features, image_context, previous_params,
                 encoder_runs, result, raised, returned, twin_seed,
                 jobs,
                 layer_call,
                 progress_calls, written,
                 echoes,
                 sessions, session_lock, next_session, uploads, tasks, cleanup, key_errors>>

\* update(time, dt) in both renders
UpdateBoth ==
  /\ ops < MaxTwinOps
  /\ \E t \in UpdateTimes :
       /\ t >= now
       /\ now' = t
       /\ particles' = update(particles, t)
       /\ twin_particles' = update(twin_particles, t)
  /\ ops' = ops + 1
  /\ op' = "update"
  /\ UNCHANGED <<toggles, effect_params, fps, total_frames, pc, frame_num, values,
                 applied, echo_frames, previous_bursts, seed, draws, spawned,
                 spawn_calls, progress, returncode,
                 audio_features, image_context, previous_params,
                 encoder_runs, result, raised, returned, twin_seed, twin_draws,
                 jobs,
                 layer_call,
                 progress_calls, written,
                 echoes,
                 sessions, session_lock, next_session, uploads, tasks, cleanup, key_errors>>

TwoRunsNext == SpawnInBoth \/ UpdateBoth

SpecTwoRuns == TwoRunsInit /\ [][TwoRunsNext]_vars

(***************************************************************************)
(* Specification of the builder: calculate_effect_parameters called again  *)
(* and again with the same arguments                                        *)
(***************************************************************************)
\* beat strengths in tenths: on each beat threshold (0.3, 0.4, 0.5, 0.6, 0.8)
\* and below the lowest
BuildBeatStrengths == {2, 3, 4, 5, 6, 8}
\* onset strengths in tenths: below, on and above 0.7
BuildOnsetStrengths == {6, 7, 8}

NoEvents == [times |-> << >>, strengths |-> << >>]

BuildBeatLists ==
  UNION { { [times |-> t, strengths |-> g] :
              t \in { u \in [1..n -> {0, TicksPerSecond}] : NonDecreasing(u) },
              g \in [1..n -> BuildBeatStrengths] } : n \in 0..MaxBuildBeats }

\* onsets 0.1 s apart
BuildOnsetLists ==
  UNION { { [times |-> [k \in 1..n |-> 60 * k], strengths |-> g] :
              g \in [1..n -> BuildOnsetStrengths] } : n \in 0..MaxBuildOnsets }

\* image contexts: the defaults, one with an empty colour list, one of an
\* analysed image (off-centre subject, two colours, a glow point)
EmptyPalette == [DefaultContext EXCEPT !.colors = << >>]
AnalysedContext ==
  [bounds |-> SubjectBounds(10, 20, 60, 40),
   glow_points |-> << [x |-> 30, y |-> 40, intensity |-> 10] >>,
   colors |-> <<Orange, White>>, mood |-> "energetic"]
BuildContexts == {NoContext, DefaultContext, EmptyPalette, AnalysedContext}

\* the arguments of the call: beats alone, onsets alone, and each image
\* context with no beat or one
BuildInputs ==
  { [features |-> AudioFeatures(b, NoEvents), context |-> NoContext] :
      b \in BuildBeatLists }
  \cup { [features |-> AudioFeatures(NoEvents, o), context |-> NoContext] :
           o \in BuildOnsetLists }
  \cup { [features |-> AudioFeatures(b, b), context |-> c] :
           b \in {NoEvents, [times |-> <<0>>, strengths |-> <<8>>]},
           c \in BuildContexts }

BuildInit ==
  /\ sessions = << >>
  /\ session_lock = "free"
  /\ next_session = 1
  /\ uploads = {}
  /\ tasks = << >>
  /\ cleanup = NoCleanup
  /\ key_errors = {}
  /\ echoes = << >>
  /\ progress_calls = << >>
  /\ written = << >>
  /\ layer_call = << >>
  /\ jobs = << >>
  /\ twin_particles = << >>
  /\ twin_seed = 0
  /\ twin_draws = 0
  /\ encoder_runs = 0
  /\ result = NoResult
  /\ raised = NoError
  /\ returned = ""
  /\ previous_params = << >>
  /\ toggles \in EvalToggles
  /\ \E input \in BuildInputs :
       /\ audio_features = input.features
       /\ image_context = input.context
  /\ effect_params = << >>
  /\ NoRender
  /\ now = 0
  /\ values = << >>
  /\ particles = << >>
  /\ seed = 0
  /\ draws = 0
  /\ spawn_calls = << >>
  /\ ops = 0
  /\ op = "init"

\* the record of a builder whose scale trigger list outlives the call: what
\* the call before collected is still in it
BuiltAccumulating(before, features, tg, context) ==
  LET fresh == calculate_effect_parameters(features, tg, context)
  IN  IF DOMAIN before = {} THEN fresh
      ELSE [fresh EXCEPT !.element_scale.triggers =
                           before.element_scale.triggers \o @]

\* the record a call returns, given what the call before returned: every
\* list the builder fills is a fresh local ("glow_triggers = []"), so the
\* earlier result has no part in it
Built(before, features, tg, context) ==
  calculate_effect_parameters(features, tg, context)

\* effect_params = calculate_effect_parameters(audio_features, toggles, ctx)
Build ==
  /\ ops < MaxBuilds
  /\ previous_params' = effect_params
  /\ effect_params' = Built(effect_params, audio_features, toggles, image_context)
  /\ ops' = ops + 1
  /\ op' = "build"
  /\ UNCHANGED <<toggles, audio_features, image_context, fps, total_frames, pc,
                 frame_num, now, values, applied, echo_frames, previous_bursts,
                 particles, seed, draws, spawned, spawn_calls, progress, returncode,
                 encoder_runs, result, raised, returned,
                 twin_particles, twin_seed, twin_draws,
                 jobs,
                 layer_call,
                 progress_calls, written,
                 echoes,
                 sessions, session_lock, next_session, uploads, tasks, cleanup, key_errors>>

BuildNext == Build

SpecBuild == BuildInit /\ [][BuildNext]_vars

(***************************************************************************)
(* Specification of concurrent renders: render_video_task runs one         *)
(* render_video call per session, the calls' frame iterations interleaved  *)
(* in any order.  particle_system, previous_bursts and echo_frames are     *)
(* locals of each call; the generator of module "random" is the process's. *)
(***************************************************************************)
JobIds == 1..2
JobToggles == {TogglesOf(DefaultOn, 5), TogglesOf(Effects, 10)}
JobBeats ==
  { [times |-> <<0>>, strengths |-> <<9>>],
    [times |-> <<0, 10>>, strengths |-> <<9, 9>>],
    [times |-> <<10>>, strengths |-> <<4>>] }

\* the session's image analysis: none, or one with an off-centre subject
JobContexts == {NoContext, AnalysedContext}

\* the locals of a call before its first frame
NewJob(params) ==
  [params |-> params, frame_num |-> 0, particles |-> << >>,
   echo_frames |-> << >>, previous_bursts |-> {}]

JobsInit ==
  /\ sessions = << >>
  /\ session_lock = "free"
  /\ next_session = 1
  /\ uploads = {}
  /\ tasks = << >>
  /\ cleanup = NoCleanup
  /\ key_errors = {}
  /\ echoes = << >>
  /\ progress_calls = << >>
  /\ written = << >>
  /\ layer_call = << >>
  /\ jobs \in [JobIds -> { NewJob(calculate_effect_parameters(AudioFeatures(b, b), tg,
                                                              context)) :
                             b \in JobBeats, tg \in JobToggles,
                             context \in JobContexts }]
  /\ twin_particles = << >>
  /\ twin_seed = 0
  /\ twin_draws = 0
  /\ encoder_runs = 0
  /\ result = NoResult
  /\ raised = NoError
  /\ returned = ""
  /\ previous_params = << >>
  /\ spawn_calls = << >>
  /\ toggles = TogglesOf({}, 0)
  /\ audio_features = << >>
  /\ image_context = NoContext
  /\ effect_params = << >>
  /\ NoRender
  /\ now = 0
  /\ values = << >>
  /\ particles = << >>
  /\ seed \in {0, RandLevels + 2}
  /\ draws = 0
  /\ ops = 0
  /\ op = "init"

\* the frame rate render_video_task asks for
JobFps == 24
JobFrameTime(k) == (k * TicksPerSecond) \div JobFps

\* the spawn calls one iteration of a call's loop makes
JobCalls(job) ==
  SpawnLoop(Get(get_effect_value_at_time(job.params, JobFrameTime(job.frame_num)),
                "particle_bursts", << >>),
            job.previous_bursts)

\* random draws one iteration makes
JobDraws(job) ==
  LET effects == get_effect_value_at_time(job.params, JobFrameTime(job.frame_num))
  IN  Len(JobCalls(job))
        * Get(Get(effects, "particle_burst_params", << >>), "count", DefaultBurstCount)
        * DrawsPerParticle

\* the locals of a call after one more iteration of its loop
FrameOfJob(job, rseed, drawn) ==
  LET time == JobFrameTime(job.frame_num)
      effects == get_effect_value_at_time(job.params, time)
      bursts == Get(effects, "particle_bursts", << >>)
      burst_params == Get(effects, "particle_burst_params", << >>)
      calls == JobCalls(job)
      before == LayersBeforeEcho(effects)
  IN  [params |-> job.params,
       frame_num |-> job.frame_num + 1,
       particles |->
         update(SpawnCalls(job.particles, rseed, drawn, SpawnBounds(bursts, calls),
                           Get(burst_params, "count", DefaultBurstCount),
                           Get(burst_params, "lifetime", DefaultBurstLifetime),
                           time),
                time),
       echo_frames |->
         EchoCapture(job.echo_frames, effects,
                     Snapshot(job.frame_num, before, effects)),
       previous_bursts |->
         CleanUp(job.previous_bursts
                   \cup {BurstId(bursts[calls[c]], calls[c] - 1) : c \in 1..Len(calls)})]

\* the calls' locals with one ParticleSystem for the module: what an
\* iteration leaves in the particle list, every call sees
JobStepSharedSystem(js, j, rseed, drawn) ==
  LET after == FrameOfJob(js[j], rseed, drawn)
  IN  [k \in DOMAIN js |->
         IF k = j THEN after ELSE [js[k] EXCEPT !.particles = after.particles]]

\* the calls' locals after call j ran one iteration
JobStep(js, j, rseed, drawn) ==
  [js EXCEPT ![j] = FrameOfJob(js[j], rseed, drawn)]

\* one iteration of the loop of one of the calls
JobFrame ==
  \E j \in JobIds :
    /\ jobs[j].frame_num < JobFrames
    /\ \E after \in {JobStep(jobs, j, seed, draws)} :
         /\ jobs' = after
         /\ draws' = draws + JobDraws(jobs[j])
    /\ ops' = j                      \* the call that ran last
    /\ op' = "job frame"
    /\ UNCHANGED <<toggles, effect_params, fps, total_frames, pc, frame_num, now,
                   values, applied, echo_frames, previous_bursts, particles, seed,
                   spawned, spawn_calls, progress, returncode,
                   audio_features, image_context, previous_params,
                   encoder_runs, result, raised, returned,
                   twin_particles, twin_seed, twin_draws,
                 layer_call,
                 progress_calls, written,
                 echoes,
                 sessions, session_lock, next_session, uploads, tasks, cleanup, key_errors>>

JobsNext == JobFrame

SpecJobs == JobsInit /\ [][JobsNext]_vars

(***************************************************************************)
(* Specification of the layer functions of video_renderer, called one at a *)
(* time with enumerated arguments                                          *)
(***************************************************************************)
\* int(n / d): Python's int() truncates towards zero
Trunc(n, d) == IF n >= 0 THEN n \div d ELSE -((-n) \div d)

\* PREVIEW_DIMENSIONS: horizontal and vertical
FrameSizes == { [width |-> 960, height |-> 540], [width |-> 540, height |-> 960] }

\* subject bounds in hundredths of the frame, as given: nothing keeps them
\* within the frame or their sizes positive
LayerBoundsX == {-50, 0, 25, 90, 150}
LayerBoundsW == {-50, 0, 1, 50, 120}
LayerBoundsY == {-10, 25, 95}
LayerBoundsH == {-20, 0, 50}
LayerBounds ==
  { [x |-> x, y |-> y, w |-> w, h |-> h] :
      x \in LayerBoundsX, y \in LayerBoundsY, w \in LayerBoundsW, h \in LayerBoundsH }

\* element_scale values in thousandths: none, half a pulse, a full pulse
LayerScales == {1000, 1075, 1150}

\* apply_element_scale with the box not cut to the frame: "bw + padding * 2"
ElementScaleCropUnclamped(bounds, scale, width, height) ==
  IF scale = 1000 THEN [cropped |-> FALSE]
  ELSE
    LET bx0 == Trunc(Get(bounds, "x", 25) * width, 100)
        by0 == Trunc(Get(bounds, "y", 25) * height, 100)
        bw0 == Trunc(Get(bounds, "w", 50) * width, 100)
        bh0 == Trunc(Get(bounds, "h", 50) * height, 100)
        padding == Trunc(15 * Min(bw0, bh0), 100)
        bx == Max(0, bx0 - padding)
        by == Max(0, by0 - padding)
        bw == bw0 + padding * 2
        bh == bh0 + padding * 2
        new_w == Trunc(bw * scale, 1000)
        new_h == Trunc(bh * scale, 1000)
    IN  IF new_w <= 0 \/ new_h <= 0 THEN [cropped |-> FALSE]
        ELSE [cropped |-> TRUE, bx |-> bx, by |-> by, bw |-> bw, bh |-> bh,
              new_w |-> new_w, new_h |-> new_h]

\* apply_element_scale up to "image.crop((bx, by, bx + bw, by + bh))": the
\* image as it came, or the box that is cropped
ElementScaleCrop(bounds, scale, width, height) ==
  IF scale = 1000 THEN [cropped |-> FALSE]     \* abs(scale - 1.0) < 0.001
  ELSE
    LET bx0 == Trunc(Get(bounds, "x", 25) * width, 100)
        by0 == Trunc(Get(bounds, "y", 25) * height, 100)
        bw0 == Trunc(Get(bounds, "w", 50) * width, 100)
        bh0 == Trunc(Get(bounds, "h", 50) * height, 100)
        padding == Trunc(15 * Min(bw0, bh0), 100)
        bx == Max(0, bx0 - padding)
        by == Max(0, by0 - padding)
        bw == Min(width - bx, bw0 + padding * 2)
        bh == Min(height - by, bh0 + padding * 2)
        new_w == Trunc(bw * scale, 1000)
        new_h == Trunc(bh * scale, 1000)
    IN  IF new_w <= 0 \/ new_h <= 0 THEN [cropped |-> FALSE]
        ELSE [cropped |-> TRUE, bx |-> bx, by |-> by, bw |-> bw, bh |-> bh,
              new_w |-> new_w, new_h |-> new_h]

\* ripple_wave intensities in hundredths, as the request gave them
\* (toggles_from_dict takes any number)
RippleIntensities == {0, 50, 100, 175}
\* RippleWaveParams.wavelength = 30 + (1 - intensity) * 40, in tenths of a pixel
RippleWavelength(intensity) == 700 - 4 * intensity
\* amplitudes the evaluator gives (amplitude * strength * fade), in tenths
RippleAmplitudes == {5, 100}

\* the dictionaries of active ripples: as the evaluator builds them (no
\* bounds), and with the bounds keys apply_ripple_wave looks for
RippleDicts ==
  { [radius |-> 100, amplitude |-> a, wavelength |-> RippleWavelength(i),
     intensity |-> i] : a \in RippleAmplitudes, i \in RippleIntensities }
  \cup
  { [radius |-> 100, amplitude |-> a, wavelength |-> RippleWavelength(i),
     intensity |-> i, bounds_w |-> w, bounds_h |-> h] :
      a \in RippleAmplitudes, i \in RippleIntensities,
      w \in LayerBoundsW, h \in LayerBoundsH }

\* apply_ripple_wave: the image as it came ("if amplitude < 1"), or the
\* denominators it divides by: max(radius_x, 1) and max(radius_y, 1) over
\* 200, the wavelength in tenths
RippleDenominators(ripple, width, height, intensity) ==
  LET radius_x == Get(ripple, "bounds_w", 50) * width      \* over 200
      radius_y == Get(ripple, "bounds_h", 50) * height
      amplitude == ripple.amplitude * intensity            \* over 1000
      wavelength == ripple.wavelength
  IN  IF amplitude < 1000 THEN [applied |-> FALSE]
      ELSE [applied |-> TRUE,
            radius_x |-> Max(radius_x, 200),
            radius_y |-> Max(radius_y, 200),
            wavelength |-> wavelength]

\* custom_particle_sprite: not given, a path with no file, a file that does
\* not open as an image, a file that does
SpritePaths == {"", "missing.png", "unreadable.png", "sprite.png"}

\* "if custom_particle_sprite and os.path.exists(...): try: particle_sprite =
\* Image.open(...).convert("RGBA") except Exception: pass"
LoadSprite(path) == IF path = "sprite.png" THEN "sprite.png" ELSE "None"

\* ParticleSystem.draw(image, time): what each live particle is drawn with;
\* draw is not given the sprite
DrawnWith(particle_sprite) == "ellipse"

LayersInit ==
  /\ sessions = << >>
  /\ session_lock = "free"
  /\ next_session = 1
  /\ uploads = {}
  /\ tasks = << >>
  /\ cleanup = NoCleanup
  /\ key_errors = {}
  /\ echoes = << >>
  /\ progress_calls = << >>
  /\ written = << >>
  /\ layer_call = [layer |-> "none"]
  /\ jobs = << >>
  /\ twin_particles = << >>
  /\ twin_seed = 0
  /\ twin_draws = 0
  /\ encoder_runs = 0
  /\ result = NoResult
  /\ raised = NoError
  /\ returned = ""
  /\ previous_params = << >>
  /\ spawn_calls = << >>
  /\ toggles = TogglesOf({}, 0)
  /\ audio_features = << >>
  /\ image_context = NoContext
  /\ effect_params = << >>
  /\ NoRender
  /\ now = 0
  /\ values = << >>
  /\ particles = << >>
  /\ seed = 0
  /\ draws = 0
  /\ ops = 0
  /\ op = "init"

LayerUnchanged ==
  UNCHANGED <<toggles, effect_params, fps, total_frames, pc, frame_num, now,
              values, applied, echo_frames, previous_bursts, particles, seed, draws,
              spawned, spawn_calls, progress, returncode, ops,
              audio_features, image_context, previous_params,
              encoder_runs, result, raised, returned,
              twin_particles, twin_seed, twin_draws, jobs,
              progress_calls, written, echoes,
              sessions, session_lock, next_session, uploads, tasks, cleanup,
              key_errors>>

\* frame = apply_element_scale(frame, bounds, scale, width, height, resampling)
ElementScaleLayer ==
  /\ \E bounds \in LayerBounds, scale \in LayerScales, size \in FrameSizes :
       layer_call' =
         [layer |-> "element_scale", bounds |-> bounds, scale |-> scale,
          width |-> size.width, height |-> size.height,
          did |-> ElementScaleCrop(bounds, scale, size.width, size.height)]
  /\ op' = "layer"
  /\ LayerUnchanged

\* frame = apply_ripple_wave(frame, ripple, width, height, ripple_intensity)
RippleLayer ==
  /\ \E ripple \in RippleDicts, size \in FrameSizes :
       layer_call' =
         [layer |-> "ripple_wave", ripple |-> ripple,
          width |-> size.width, height |-> size.height,
          did |-> RippleDenominators(ripple, size.width, size.height,
                                     ripple.intensity)]
  /\ op' = "layer"
  /\ LayerUnchanged

\* the sprite is loaded before the loop; layer 7 draws the particles
ParticleLayer ==
  /\ \E path \in SpritePaths :
     \E particle_sprite \in {LoadSprite(path)} :
       layer_call' =
         [layer |-> "particle_burst", custom_particle_sprite |-> path,
          particle_sprite |-> particle_sprite,
          raised |-> FALSE,
          did |-> DrawnWith(particle_sprite)]
  /\ op' = "layer"
  /\ LayerUnchanged

LayersNext == ElementScaleLayer \/ RippleLayer \/ ParticleLayer

SpecLayers == LayersInit /\ [][LayersNext]_vars

(***************************************************************************)
(* The session table of main.py (specification SpecSessions).  The request *)
(* handlers and cleanup_expired_sessions run on the event loop, one at a   *)
(* time between awaits; render_video_task and export_video_task run in     *)
(* worker threads and interleave with the event loop at every step.        *)
(***************************************************************************)
\* session ids, str(uuid.uuid4()): fresh at every create_session
SessionIds == 1..2

\* SessionData as create_session builds it
NewSession ==
  [image_path |-> "", output_path |-> "", render_status |-> "idle",
   render_progress |-> 0]

\* no background task was added for the session
NoTask == [kind |-> "none", at |-> "done", locked |-> FALSE, calls |-> 0]

SessionsInit ==
  /\ sessions = << >>
  /\ session_lock = "free"
  /\ next_session = 1
  /\ uploads = {}
  /\ tasks = [s \in SessionIds |-> NoTask]
  /\ cleanup = NoCleanup
  /\ key_errors = {}
  /\ echoes = << >>
  /\ progress_calls = << >>
  /\ written = << >>
  /\ layer_call = [layer |-> "none"]
  /\ jobs = << >>
  /\ twin_particles = << >>
  /\ twin_seed = 0
  /\ twin_draws = 0
  /\ encoder_runs = 0
  /\ result = NoResult
  /\ raised = NoError
  /\ returned = ""
  /\ previous_params = << >>
  /\ spawn_calls = << >>
  /\ toggles = TogglesOf({}, 0)
  /\ audio_features = << >>
  /\ image_context = NoContext
  /\ effect_params = << >>
  /\ NoRender
  /\ now = 0
  /\ values = << >>
  /\ particles = << >>
  /\ seed = 0
  /\ draws = 0
  /\ ops = 0
  /\ op = "init"

SessionsUnchanged ==
  UNCHANGED <<toggles, effect_params, fps, total_frames, pc, frame_num, now,
              values, applied, echo_frames, previous_bursts, particles, seed, draws,
              spawned, spawn_calls, progress, returncode, ops,
              audio_features, image_context, previous_params,
              encoder_runs, result, raised, returned,
              twin_particles, twin_seed, twin_draws, jobs, layer_call,
              progress_calls, written, echoes>>

\* del sessions[session_id]
Removed(table, session_id) ==
  [s \in DOMAIN table \ {session_id} |-> table[s]]

\* the event loop runs a handler: it is not inside cleanup_expired_sessions
LoopFree == ~cleanup.running

\* POST /session/create: "with session_lock: sessions[session_id] =
\* SessionData(...)"
create_session ==
  /\ LoopFree
  /\ session_lock = "free"
  /\ next_session \in SessionIds
  /\ sessions' = [s \in DOMAIN sessions \cup {next_session} |->
                    IF s = next_session THEN NewSession ELSE sessions[s]]
  /\ next_session' = next_session + 1
  /\ op' = "create_session"
  /\ UNCHANGED <<session_lock, uploads, tasks, cleanup, key_errors>>
  /\ SessionsUnchanged

\* POST /upload/image, up to "content = await file.read()": the handler
\* passed "if session_id not in sessions", taken without the lock, and is
\* suspended; the event loop runs other handlers meanwhile
upload_image_await(session_id) ==
  /\ LoopFree
  /\ session_id \in DOMAIN sessions
  /\ session_id \notin uploads
  /\ uploads' = uploads \cup {session_id}
  /\ op' = "upload_image await"
  /\ UNCHANGED <<sessions, session_lock, next_session, tasks, cleanup, key_errors>>
  /\ SessionsUnchanged

\* POST /upload/image, after the await: "sessions[session_id].image_path =
\* str(image_path)", without the lock and without a second existence check
upload_image_resume(session_id) ==
  /\ LoopFree
  /\ session_id \in uploads
  /\ uploads' = uploads \ {session_id}
  /\ IF session_id \in DOMAIN sessions
     THEN /\ sessions' = [sessions EXCEPT ![session_id].image_path = "cover"]
          /\ UNCHANGED key_errors
     ELSE /\ key_errors' = key_errors \cup
                {[where |-> "upload_image", session_id |-> session_id]}
          /\ UNCHANGED sessions
  /\ op' = "upload_image resume"
  /\ UNCHANGED <<session_lock, next_session, tasks, cleanup>>
  /\ SessionsUnchanged

\* POST /generate and POST /export: the existence check and the reads are
\* taken without the lock, with no await in between;
\* background_tasks.add_task queues the task (one task per session at a time)
StartTask(session_id, kind) ==
  /\ LoopFree
  /\ session_id \in DOMAIN sessions
  /\ sessions[session_id].image_path # ""
  /\ tasks[session_id].at = "done"
  /\ tasks' = [tasks EXCEPT ![session_id] =
                 [kind |-> kind, at |-> "start", locked |-> FALSE, calls |-> 0]]
  /\ UNCHANGED <<sessions, session_lock, next_session, uploads, cleanup, key_errors>>
  /\ SessionsUnchanged

generate_video(session_id) ==
  /\ StartTask(session_id, "render")
  /\ op' = "generate_video"

export_video(session_id) ==
  /\ session_id \in DOMAIN sessions
  /\ sessions[session_id].output_path # ""
  /\ StartTask(session_id, "export")
  /\ op' = "export_video"

\* DELETE /session: "if session_id in sessions: ... del sessions[session_id]",
\* without the lock
delete_session(session_id) ==
  /\ LoopFree
  /\ session_id \in DOMAIN sessions
  /\ sessions' = Removed(sessions, session_id)
  /\ op' = "delete_session"
  /\ UNCHANGED <<session_lock, next_session, uploads, tasks, cleanup, key_errors>>
  /\ SessionsUnchanged

\* cleanup_expired_sessions, the scan under the lock: the expired sessions
\* are those last accessed more than SESSION_EXPIRY_SECONDS ago (the clock
\* and last_accessed are inputs: any sessions may have expired)
cleanup_scan ==
  /\ LoopFree
  /\ session_lock = "free"
  /\ \E expired_sessions \in SUBSET DOMAIN sessions :
       /\ expired_sessions # {}
       /\ cleanup' = [running |-> TRUE, expired |-> expired_sessions]
  /\ op' = "cleanup scan"
  /\ UNCHANGED <<sessions, session_lock, next_session, uploads, tasks, key_errors>>
  /\ SessionsUnchanged

\* cleanup_expired_sessions, one pass of "for session_id in
\* expired_sessions": "with session_lock: if session_id in sessions: del
\* sessions[session_id]"
cleanup_remove ==
  /\ cleanup.running
  /\ session_lock = "free"
  /\ \E session_id \in cleanup.expired :
       /\ \A other \in cleanup.expired : session_id <= other
       /\ sessions' = IF session_id \in DOMAIN sessions
                        THEN Removed(sessions, session_id) ELSE sessions
       /\ cleanup' = [running |-> cleanup.expired # {session_id},
                      expired |-> cleanup.expired \ {session_id}]
  /\ op' = "cleanup remove"
  /\ UNCHANGED <<session_lock, next_session, uploads, tasks, key_errors>>
  /\ SessionsUnchanged

\* the task after a with-block that found no session: "return" in the first
\* block, nothing written in the others
TaskAfterMiss(task) ==
  CASE task.at = "start" -> [task EXCEPT !.at = "done"]
    [] task.at = "progress" ->
         [task EXCEPT !.calls = @ + 1,
                      !.at = IF task.calls + 1 >= MaxProgressCalls
                               THEN "finish" ELSE "progress"]
    [] OTHER -> [task EXCEPT !.at = "done"]

\* the task after a with-block that found its session and wrote to it
TaskAfterWrite(task) ==
  IF task.at = "start"
    THEN [task EXCEPT !.locked = FALSE, !.at = "progress"]
    ELSE [TaskAfterMiss(task) EXCEPT !.locked = FALSE]

\* what a with-block of the task writes to its session
TaskWrites(task, session) ==
  CASE task.at = "start" ->
         [session EXCEPT !.render_status = IF task.kind = "render"
                                             THEN "rendering" ELSE "exporting",
                         !.render_progress = 0]
    [] task.at = "progress" ->
         [session EXCEPT !.render_progress =
                           (100 * (task.calls + 1)) \div (MaxProgressCalls + 2)]
    [] task.at = "finish" /\ task.kind = "render" ->
         [session EXCEPT !.output_path = "preview",
                         !.render_status = "complete",
                         !.render_progress = 100]
    [] task.at = "finish" /\ task.kind = "export" ->
         [session EXCEPT !.render_status = "export_complete",
                         !.render_progress = 100]
    [] OTHER -> [session EXCEPT !.render_status = "error"]

\* a with-block that ends in KeyError: the except branch runs next, and a
\* KeyError in the except branch ends the task
TaskAfterKeyError(task) ==
  [task EXCEPT !.locked = FALSE,
               !.at = IF task.at = "except" THEN "done" ELSE "except"]

\* a task enters one of its blocks "with session_lock: if session_id in
\* sessions:" and evaluates the existence check
task_check(session_id) ==
  /\ tasks[session_id].at # "done"
  /\ ~tasks[session_id].locked
  /\ session_lock = "free"
  /\ IF session_id \in DOMAIN sessions
     THEN /\ session_lock' = "held"
          /\ tasks' = [tasks EXCEPT ![session_id].locked = TRUE]
     ELSE /\ tasks' = [tasks EXCEPT ![session_id] = TaskAfterMiss(@)]
          /\ UNCHANGED session_lock
  /\ op' = "task check"
  /\ UNCHANGED <<sessions, next_session, uploads, cleanup, key_errors>>
  /\ SessionsUnchanged

\* the task, holding the lock after the check, evaluates
\* sessions[session_id] and writes its fields, then leaves the with-block
task_write(session_id) ==
  /\ tasks[session_id].locked
  /\ session_lock' = "free"
  /\ IF session_id \in DOMAIN sessions
     THEN /\ sessions' = [sessions EXCEPT ![session_id] =
                            TaskWrites(tasks[session_id], @)]
          /\ tasks' = [tasks EXCEPT ![session_id] = TaskAfterWrite(@)]
          /\ UNCHANGED key_errors
     ELSE /\ key_errors' = key_errors \cup
                {[where |-> tasks[session_id].at, session_id |-> session_id]}
          /\ tasks' = [tasks EXCEPT ![session_id] = TaskAfterKeyError(@)]
          /\ UNCHANGED sessions
  /\ op' = "task write"
  /\ UNCHANGED <<next_session, uploads, cleanup>>
  /\ SessionsUnchanged

\* render_video raises (the encoder failed): "except Exception as e"
task_raise(session_id) ==
  /\ tasks[session_id].at = "progress"
  /\ ~tasks[session_id].locked
  /\ tasks' = [tasks EXCEPT ![session_id].at = "except"]
  /\ op' = "task raise"
  /\ UNCHANGED <<sessions, session_lock, next_session, uploads, cleanup, key_errors>>
  /\ SessionsUnchanged

SessionsNext ==
  \/ create_session
  \/ \E session_id \in SessionIds : upload_image_await(session_id)
  \/ \E session_id \in SessionIds : upload_image_resume(session_id)
  \/ \E session_id \in SessionIds : generate_video(session_id)
  \/ \E session_id \in SessionIds : export_video(session_id)
  \/ \E session_id \in SessionIds : delete_session(session_id)
  \/ cleanup_scan
  \/ cleanup_remove
  \/ \E session_id \in SessionIds : task_check(session_id)
  \/ \E session_id \in SessionIds : task_write(session_id)
  \/ \E session_id \in SessionIds : task_raise(session_id)

SpecSessions == SessionsInit /\ [][SessionsNext]_vars

(***************************************************************************)
(* Claims about the frame loop (specification Spec)                        *)
(***************************************************************************)
BurstTriggers == effect_params.particle_burst.triggers
LastFrameTime == FrameTime(total_frames - 1)

\* C1: across a render, the burst of one trigger is spawned at most once,
\* also when previous_bursts is cleared while the trigger is still within
\* the first tenth of its lifetime.
C1_BurstSpawnedAtMostOnce ==
  pc # "idle" => \A k \in DOMAIN spawned : spawned[k] <= 1

\* C2: every burst trigger whose time lies within the rendered frames gets
\* its burst spawned in some frame of its activation window: it has been
\* spawned once the window has passed, and at the latest when the loop ends.
C2_EveryTriggerSpawned ==
  pc # "idle" =>
    \A k \in DOMAIN spawned :
      (\/ /\ op = "frame"
          /\ now >= BurstTriggers[k].time + effect_params.particle_burst.lifetime
       \/ /\ pc # "frames"
          /\ BurstTriggers[k].time <= LastFrameTime)
      => spawned[k] >= 1

\* C3: the echo buffer never holds more than trail_count + 2 snapshots, it
\* holds the most recent frames in order (so what was evicted is the oldest),
\* and it is empty after every frame in which the echo effect is disabled.
C3_EchoBufferBounded ==
  op = "frame" =>
    /\ Len(echo_frames) <= effect_params.echo_trail.trail_count + 2
    /\ \A i \in 1..Len(echo_frames) :
         echo_frames[i].index = frame_num - Len(echo_frames) + i - 1
    /\ (~toggles["echo_trail"].enabled => echo_frames = << >>)

\* C3's case: the buffer is full and the first frames have been evicted
C3_Witness ==
  /\ op = "frame"
  /\ toggles["echo_trail"].enabled
  /\ Len(echo_frames) = effect_params.echo_trail.trail_count + 2
  /\ echo_frames[1].index > 0

LayersOf(frame) == {frame[i] : i \in 1..Len(frame)}

\* C4: every stored echo frame is the frame as it was after layers 1-5
\* (background dim, ripple, scale, glow, outline): it holds no echo overlay
\* and no particles, and nothing of the layers after them.
C4_EchoSnapshotBeforeEcho ==
  \A i \in 1..Len(echo_frames) :
    LayersOf(echo_frames[i].layers) \subseteq
      {"background_dim", "ripple_wave", "element_scale", "element_glow",
       "neon_outline"}

\* C4's case: a stored snapshot of a frame that had layers 1-5 applied, in a
\* frame on which echoes and live particles were drawn
C4_Witness ==
  /\ op = "frame"
  /\ echo_frames # << >>
  /\ "element_scale" \in LayersOf(echo_frames[Len(echo_frames)].layers)
  /\ "echo_trail" \in LayersOf(applied)
  /\ particles # << >>

LayerOrder ==
  <<"background_dim", "ripple_wave", "element_scale", "element_glow",
    "neon_outline", "echo_trail", "particle_burst", "energy_trails",
    "light_flares", "glitch", "film_grain", "strobe_flash", "vignette_pulse">>
LayerRank(layer) == CHOOSE r \in 1..Len(LayerOrder) : LayerOrder[r] = layer

\* C5: in every frame the layers are applied in the fixed order of the
\* thirteen, and none is applied twice, except the ripple layer, which is
\* applied once per active ripple.
C5_FixedLayerOrder ==
  op = "frame" =>
    /\ LayersOf(applied) \subseteq LayersOf(LayerOrder)
    /\ \A i, j \in 1..Len(applied) :
         i < j =>
           \/ LayerRank(applied[i]) < LayerRank(applied[j])
           \/ applied[i] = "ripple_wave" /\ applied[j] = "ripple_wave"
    /\ Cardinality({i \in 1..Len(applied) : applied[i] = "ripple_wave"})
         = Len(Get(values, "ripple_waves", << >>))

\* C5's case: a frame on which all thirteen layers were applied
C5_Witness ==
  /\ op = "frame"
  /\ LayersOf(applied) = LayersOf(LayerOrder)

\* C20: in every frame rendered with background_dim disabled the evaluator
\* gives dim amount 0 and blur 0 and layer 1 leaves the working frame as it
\* was: the background is not dimmed, and what apply_background_dim returns
\* for these amounts is the frame it was given.
C20_DisabledDimLeavesFrame ==
  (op = "frame" /\ ~effect_params.background_dim.enabled) =>
    /\ values.background_dim_enabled = FALSE
    /\ values.background_dim_amount = 0
    /\ values.background_blur = 0
    /\ "background_dim" \notin LayersOf(applied)
    /\ apply_background_dim(applied, values.background_dim_amount,
                            values.background_blur) = applied

\* C20's case: a frame with every effect but background_dim enabled, on
\* which the later layers were applied
C20_Witness ==
  /\ op = "frame"
  /\ ~toggles["background_dim"].enabled
  /\ toggles["element_scale"].enabled
  /\ toggles["background_dim"].intensity = 10
  /\ "element_scale" \in LayersOf(applied)
  /\ "background_dim" \notin LayersOf(applied)

\* C25: every spawn call of the render loop is given the lifetime of the
\* particle-burst parameter record (0.8 + intensity * 0.6 s), the lifetime
\* the evaluator's activation window uses.
C25_SpawnedWithConfiguredLifetime ==
  pc # "idle" =>
    \A c \in 1..Len(spawn_calls) :
      spawn_calls[c].lifetime = effect_params.particle_burst.lifetime

\* C23: a render of N = int(D * f) frames runs them in index order 0..N-1,
\* frame k at time k / f, on the echo buffer and the particles frame k - 1
\* left; the loop calls the progress callback once per frame, and the encoder
\* is started once, after all N frames were saved.
C23_FramesInOrderThenEncode ==
  [][/\ total_frames' = (DurationTicks * fps') \div TicksPerSecond
     /\ frame_num' <= total_frames'
     /\ written' = [k \in 1..frame_num' |-> k - 1]
     /\ SelectSeq(progress_calls', LAMBDA v : v < 85 * total_frames')
          = [k \in 1..frame_num' |-> 80 * (k - 1)]
     /\ op' = "frame" =>
          /\ frame_num' = frame_num + 1
          /\ now' * fps' <= frame_num * TicksPerSecond
          /\ frame_num * TicksPerSecond < (now' + 1) * fps'
          /\ echo_frames' # << >> =>
               LET older == SubSeq(echo_frames', 1, Len(echo_frames') - 1)
               IN  /\ echo_frames'[Len(echo_frames')].index = frame_num
                   /\ Len(older) <= Len(echo_frames)
                   /\ older = SubSeq(echo_frames, Len(echo_frames) - Len(older) + 1,
                                     Len(echo_frames))
          /\ LET earlier == SelectSeq(particles', LAMBDA p : p.birth_time # now')
                 alive == SelectSeq(particles, LAMBDA p : Alive(p, now'))
             IN  earlier = [n \in 1..Len(alive) |-> [alive[n] EXCEPT !.steps = @ + 1]]
          /\ encoder_runs' = 0
     /\ encoder_runs' <= 1
     /\ encoder_runs' = 1 => Len(written') = total_frames']_vars

\* C23's case: a render of more than one frame whose encoder has run
C23_Witness ==
  /\ pc = "done"
  /\ total_frames > 1
  /\ Len(written) = total_frames
  /\ written[total_frames] = total_frames - 1
  /\ encoder_runs = 1
  /\ echo_frames # << >>

\* C24: the values given to the progress callback within a render never go
\* down and stay within [0, 1]; those of the frames are below 0.8; 0.85 is
\* given once, after the last frame and before the encoder runs; 1.0 is
\* given only after the encoder exited with status 0.
C24_ProgressMonotone ==
  pc # "idle" =>
    /\ \A k \in 1..Len(progress_calls) :
         /\ 0 <= progress_calls[k]
         /\ progress_calls[k] <= 100 * total_frames
         /\ k > 1 => progress_calls[k - 1] <= progress_calls[k]
         /\ k <= Len(written) => progress_calls[k] < 80 * total_frames
         /\ progress_calls[k] = 100 * total_frames => (pc = "done" /\ returncode = 0)
    /\ Len(progress_calls) <= Len(written) + 2
    /\ Len(progress_calls) > Len(written) =>
         /\ Len(written) = total_frames
         /\ progress_calls[Len(written) + 1] = 85 * total_frames
    /\ encoder_runs = 1 => Len(progress_calls) > Len(written)

\* C24's case: a finished render: the frames' values, 0.85, then 1.0
C24_Witness ==
  /\ pc = "done"
  /\ total_frames > 1
  /\ Len(progress_calls) = total_frames + 2
  /\ progress_calls[total_frames] = 80 * (total_frames - 1)
  /\ progress_calls[total_frames + 1] = 85 * total_frames
  /\ progress_calls[total_frames + 2] = 100 * total_frames

\* intensity * decay^age in millionths (intensity in tenths, decay in
\* hundredths), rounded down at each factor
AlphaMillionths(intensity, decay, age) ==
  LET alpha[k \in 0..age] == IF k = 0 THEN 100000 * intensity
                                      ELSE (decay * alpha[k - 1]) \div 100
  IN  alpha[age]

\* the min(trail_count, k) newest of the k frames captured before the
\* current one that are still in the buffer, oldest first, the newest with
\* age 1, each with alpha intensity * decay^age
PriorEchoes ==
  LET k == Len(echo_frames) - 1
      n == Min(values.echo_trail_count, k)
  IN  [i \in 1..n |->
         [index |-> echo_frames[k - n + i].index,
          age |-> n - i + 1,
          alpha |-> AlphaMillionths(values.echo_trail_intensity,
                                    values.echo_trail_decay, n - i + 1)]]

\* C30 as stated: in every frame with echo enabled the echoes composited are
\* all of the min(trail_count, k) newest prior frames in the buffer (those
\* with a non-zero alpha), oldest first, with alpha intensity * decay^age.
C30_AllRecentEchoesComposited ==
  (op = "frame" /\ values.echo_trail_enabled) =>
    echoes = SelectSeq(PriorEchoes, LAMBDA e : e.alpha > 0)

\* C30, amended: in every frame with echo enabled the echoes composited are
\* those of the min(trail_count, k) newest prior frames in the buffer whose
\* alpha intensity * decay^age is at least 0.03, never the frame's own
\* snapshot, oldest first, the newest prior frame with age 1.
C30_RecentVisibleEchoesComposited ==
  (op = "frame" /\ values.echo_trail_enabled) =>
    /\ echoes = SelectSeq(PriorEchoes, LAMBDA e : e.alpha >= 30000)
    /\ \A i \in 1..Len(echoes) :
         /\ echoes[i].index < frame_num - 1
         /\ i > 1 => /\ echoes[i - 1].index < echoes[i].index
                     /\ echoes[i - 1].age = echoes[i].age + 1
    /\ echoes # << >> =>
         /\ echoes[Len(echoes)].age = 1
         /\ echoes[Len(echoes)].index = echo_frames[Len(echo_frames) - 1].index

\* C30's case: echo at intensity 1.0 (trail_count 8, decay 0.6) on a frame
\* with eight or more earlier frames in the buffer: the six newest are
\* composited, the two oldest (alpha 0.6^7 and 0.6^8) are below 0.03
C30_Witness ==
  /\ op = "frame"
  /\ values.echo_trail_enabled
  /\ values.echo_trail_count = 8
  /\ Len(echo_frames) = 10
  /\ Len(echoes) = 6
  /\ echoes[6].age = 1
  /\ echoes[6].index = frame_num - 2

(***************************************************************************)
(* Claims about the particle system (specification SpecParticles)          *)
(***************************************************************************)
\* C6: an update never increases the number of particles; it removes exactly
\* the particles whose age has reached their lifetime, so that it leaves no
\* particle once t - birth_time >= lifetime for all of them.
C6_UpdateRemovesTheExpired ==
  [][op' = "update" =>
       LET expired ==
             {i \in 1..Len(particles) :
                (now' - particles[i].birth_time) * LifeDen >= particles[i].lifetime}
       IN  /\ Len(particles') <= Len(particles)
           /\ Len(particles') = Len(particles) - Cardinality(expired)
           /\ \A i \in 1..Len(particles') :
                (now' - particles'[i].birth_time) * LifeDen < particles'[i].lifetime
           /\ (Cardinality(expired) = Len(particles) => particles' = << >>)]_vars

\* C6's case: an update that removed some of the spawned particles and kept
\* the others
C6_Witness ==
  /\ op = "update"
  /\ particles # << >>
  /\ Len(particles) * DrawsPerParticle < draws

\* the one burst of C7: 50 particles, requested lifetime 1.0 s, at t = 0
OneSecondBurst ==
  /\ Len(spawn_calls) = 1
  /\ spawn_calls[1].count = 50
  /\ spawn_calls[1].lifetime = TicksPerSecond
  /\ spawn_calls[1].time = 0

\* C7: after 50 particles with lifetime 1.0 s were spawned at t = 0 and
\* nothing else, an update at any t >= 1.1 s leaves zero particles.
C7_NoneLeftAfterOnePointOne ==
  (op = "update" /\ OneSecondBurst /\ 10 * now >= 11 * TicksPerSecond)
    => particles = << >>

\* C7's case: that burst, updated at exactly 1.1 s
C7_Witness ==
  /\ op = "update"
  /\ OneSecondBurst
  /\ 10 * now = 11 * TicksPerSecond
  /\ particles = << >>

\* the particles the last spawn call appended
JustSpawned ==
  {particles[i] : i \in (Len(particles) - spawn_calls[Len(spawn_calls)].count + 1)
                          ..Len(particles)}
RequestedLifetime == spawn_calls[Len(spawn_calls)].lifetime

\* C8 as stated: every particle spawned with requested lifetime L gets a
\* lifetime within [0.85 * L, 1.15 * L].
C8_LifetimeWithinFifteenPercent ==
  op = "spawn" =>
    \A p \in JustSpawned :
      /\ 100 * p.lifetime >= 85 * RequestedLifetime * LifeDen
      /\ 100 * p.lifetime <= 115 * RequestedLifetime * LifeDen

\* C8 as the code has it: every particle spawned with requested lifetime L
\* gets a lifetime within [0.7 * L, L), the requested lifetime excluded.
C8_LifetimeWithinSeventyPercent ==
  op = "spawn" =>
    \A p \in JustSpawned :
      /\ 10 * p.lifetime >= 7 * RequestedLifetime * LifeDen
      /\ p.lifetime < RequestedLifetime * LifeDen

\* C8's case: a spawn that drew the shortest lifetime, 0.7 * L
C8_Witness ==
  /\ op = "spawn"
  /\ \E p \in JustSpawned : 10 * p.lifetime = 7 * RequestedLifetime * LifeDen

(***************************************************************************)
(* Claims about the evaluator (specification SpecEval)                     *)
(***************************************************************************)
\* the off sentinel of effect e in the evaluator's result v, its keys present
OffSentinel(e, v) ==
  CASE e = "element_glow" ->
         "element_glow_intensity" \in DOMAIN v /\ v.element_glow_intensity = 0
    [] e = "element_scale" ->
         "element_scale" \in DOMAIN v /\ v.element_scale = ScaleDen
    [] e = "neon_outline" ->
         "neon_outline_intensity" \in DOMAIN v /\ v.neon_outline_intensity = 0
    [] e = "echo_trail" ->
         /\ {"echo_trail_enabled", "echo_trail_count", "echo_trail_intensity"}
              \subseteq DOMAIN v
         /\ v.echo_trail_enabled = FALSE
         /\ v.echo_trail_count = 0
         /\ v.echo_trail_intensity = 0
    [] e = "particle_burst" ->
         "particle_bursts" \in DOMAIN v /\ v.particle_bursts = << >>
    [] e = "energy_trails" ->
         "energy_trails_enabled" \in DOMAIN v /\ v.energy_trails_enabled = FALSE
    [] e = "light_flares" ->
         "light_flares_intensity" \in DOMAIN v /\ v.light_flares_intensity = 0
    [] e = "glitch" ->
         /\ {"glitch_active", "glitch_intensity"} \subseteq DOMAIN v
         /\ v.glitch_active = FALSE
         /\ v.glitch_intensity = 0
    [] e = "ripple_wave" ->
         "ripple_waves" \in DOMAIN v /\ v.ripple_waves = << >>
    [] e = "film_grain" ->
         /\ {"film_grain_enabled", "film_grain_intensity"} \subseteq DOMAIN v
         /\ v.film_grain_enabled = FALSE
         /\ v.film_grain_intensity = 0
    [] e = "strobe_flash" ->
         /\ {"strobe_active", "strobe_intensity"} \subseteq DOMAIN v
         /\ v.strobe_active = FALSE
         /\ v.strobe_intensity = 0
    [] e = "vignette_pulse" ->
         "vignette_strength" \in DOMAIN v /\ v.vignette_strength = 0
    [] e = "background_dim" ->
         /\ {"background_dim_enabled", "background_dim_amount", "background_blur"}
              \subseteq DOMAIN v
         /\ v.background_dim_enabled = FALSE
         /\ v.background_dim_amount = 0
         /\ v.background_blur = 0

\* C9: for each of the thirteen effects, a toggle with enabled = false gives
\* an empty trigger list in the built parameters and, at every query time,
\* the effect's off sentinel in the evaluator's result, its key present.
C9_DisabledGivesOffSentinel ==
  op = "evaluate" =>
    \A e \in Effects :
      ~toggles[e].enabled =>
        /\ TriggerList(effect_params, e) = << >>
        /\ OffSentinel(e, values)

\* C9's case: effects disabled next to enabled ones, evaluated while a beat's
\* pulse is under way
C9_Witness ==
  /\ op = "evaluate"
  /\ ~toggles["neon_outline"].enabled
  /\ ~toggles["strobe_flash"].enabled
  /\ toggles["element_scale"].enabled
  /\ values.element_scale > ScaleDen

\* C10: element_scale enabled at intensity i > 0, one beat at T of strength
\* s > 0: the evaluated scale lies strictly between 1.0 and 1.0 + 0.15 * i
\* for T < t < T + 0.05 s, and is exactly 1.0 for t >= T + 0.2 s.
C10_ScalePulseEnvelope ==
  (/\ op = "evaluate"
   /\ toggles["element_scale"].enabled
   /\ toggles["element_scale"].intensity > 0
   /\ Len(effect_params.element_scale.triggers) = 1)
  => LET T == effect_params.element_scale.triggers[1].time
         i == toggles["element_scale"].intensity
     IN  /\ (T < now /\ 20 * now < 20 * T + TicksPerSecond) =>
               /\ values.element_scale > ScaleDen
               /\ values.element_scale < (ScaleDen \div 1000) * (1000 + 15 * i)
         /\ (5 * now >= 5 * T + TicksPerSecond) =>
               values.element_scale = ScaleDen

\* C10's case: i = 1.0, s = 0.8, T = 1.0 s, evaluated at t = 1.02 s, where the
\* scale is 1.048
C10_Witness ==
  /\ op = "evaluate"
  /\ toggles["element_scale"].enabled
  /\ toggles["element_scale"].intensity = 10
  /\ Len(effect_params.element_scale.triggers) = 1
  /\ effect_params.element_scale.triggers[1] = [time |-> 600, strength |-> 80]
  /\ 100 * now = 102 * TicksPerSecond
  /\ values.element_scale = 1048 * (ScaleDen \div 1000)

\* C11: with strobe_flash enabled at intensity i, strobe_active at time t is
\* true exactly when some strobe trigger T has T <= t < T + flash_duration,
\* flash_duration = 0.03 + 0.05 * i seconds: the window is half-open.
C11_StrobeWindowHalfOpen ==
  (op = "evaluate" /\ toggles["strobe_flash"].enabled)
  => (values.strobe_active
        <=> \E k \in 1..Len(effect_params.strobe_flash.triggers) :
              LET T == effect_params.strobe_flash.triggers[k]
              IN  /\ T <= now
                  /\ 1000 * (now - T)
                       < TicksPerSecond * (30 + 5 * toggles["strobe_flash"].intensity))

\* C11's case: a trigger at 2.0 s with flash_duration 0.05 s, evaluated at
\* t = 2.05 s, where the flash is off
C11_Witness ==
  /\ op = "evaluate"
  /\ toggles["strobe_flash"].enabled
  /\ effect_params.strobe_flash.flash_duration * 20 = TicksPerSecond
  /\ effect_params.strobe_flash.triggers = <<2 * TicksPerSecond>>
  /\ 100 * now = 205 * TicksPerSecond
  /\ values.strobe_active = FALSE

\* C14: overlapping triggers combine by the maximum of their pulses, not the
\* sum: with any triggers of strength in [0, 1], element_scale stays within
\* [base_scale, max_scale] = [1.0, 1.0 + 0.15 * i], and glow (baseline 0.3,
\* full pulse 0.7, times i), neon outline (0.5 and 0.5, times i) and vignette
\* (base_strength 0.2 + 0.2 * i, pulse_strength 0.1 + 0.2 * i) stay between
\* their baseline and the baseline plus one full pulse.
C14_PulsesCombineByMax ==
  op = "evaluate" =>
    LET on(e) == toggles[e].enabled
        I(e) == toggles[e].intensity
    IN  /\ on("element_scale") =>
             /\ values.element_scale >= ScaleDen
             /\ values.element_scale
                  <= (ScaleDen \div 1000) * (1000 + 15 * I("element_scale"))
        /\ on("element_glow") =>
             /\ 10 * values.element_glow_intensity
                  >= 3 * I("element_glow") * (GlowDen \div 10)
             /\ values.element_glow_intensity
                  <= I("element_glow") * (GlowDen \div 10)
        /\ on("neon_outline") =>
             /\ 2 * values.neon_outline_intensity
                  >= I("neon_outline") * (OutlineDen \div 10)
             /\ values.neon_outline_intensity
                  <= I("neon_outline") * (OutlineDen \div 10)
        /\ on("vignette_pulse") =>
             /\ values.vignette_strength
                  >= (20 + 2 * I("vignette_pulse")) * (VignetteDen \div 100)
             /\ values.vignette_strength
                  <= (30 + 4 * I("vignette_pulse")) * (VignetteDen \div 100)

\* C14's case: two triggers of full strength, 0.15 s apart, both inside the
\* scale window, the later one near the top of its attack
C14_Witness ==
  /\ op = "evaluate"
  /\ toggles["element_scale"].enabled
  /\ toggles["element_glow"].enabled
  /\ Cardinality(InWindow(effect_params.element_scale.triggers, now, 120)) = 2
  /\ \A k \in 1..Len(effect_params.element_scale.triggers) :
       effect_params.element_scale.triggers[k].strength = 100
  /\ effect_params.element_scale.triggers[1].time + 90
       = effect_params.element_scale.triggers[2].time
  /\ now = effect_params.element_scale.triggers[2].time + 29

\* the effects whose value is a pulse envelope, with the key of the value,
\* the window in ticks, the resting value and the height of one full pulse
PulseEffects ==
  {"element_scale", "element_glow", "neon_outline", "light_flares", "vignette_pulse"}

PulseValue(e, v) ==
  CASE e = "element_scale" -> v.element_scale
    [] e = "element_glow" -> v.element_glow_intensity
    [] e = "neon_outline" -> v.neon_outline_intensity
    [] e = "light_flares" -> v.light_flares_intensity
    [] e = "vignette_pulse" -> v.vignette_strength

PulseWindow(e) ==
  CASE e = "element_scale" -> (2 * TicksPerSecond) \div 10
    [] e = "element_glow" -> (3 * TicksPerSecond) \div 10
    [] e = "neon_outline" -> (25 * TicksPerSecond) \div 100
    [] e = "light_flares" -> (4 * TicksPerSecond) \div 10
    [] e = "vignette_pulse" -> (3 * TicksPerSecond) \div 10

Baseline(e) ==
  LET i == toggles[e].intensity
  IN  CASE e = "element_scale" -> ScaleDen
        [] e = "element_glow" -> 3 * i * (GlowDen \div 100)
        [] e = "neon_outline" -> 5 * i * (OutlineDen \div 100)
        [] e = "light_flares" -> 0
        [] e = "vignette_pulse" -> (20 + 2 * i) * (VignetteDen \div 100)

FullPulse(e) ==
  LET i == toggles[e].intensity
  IN  CASE e = "element_scale" -> 15 * i * (ScaleDen \div 1000)
        [] e = "element_glow" -> 7 * i * (GlowDen \div 100)
        [] e = "neon_outline" -> 5 * i * (OutlineDen \div 100)
        [] e = "light_flares" -> i * (FlareDen \div 10)
        [] e = "vignette_pulse" -> (10 + 2 * i) * (VignetteDen \div 100)

\* t is before the first trigger or at or after the last one's window
OutsideWindows(triggers, t, window) ==
  \/ triggers = << >>
  \/ t < triggers[1].time
  \/ t >= triggers[Len(triggers)].time + window

\* t is a trigger time and no earlier trigger's window holds t
AtPulseStart(triggers, t, window) ==
  /\ \E k \in 1..Len(triggers) : triggers[k].time = t
  /\ \A k \in InWindow(triggers, t, window) : triggers[k].time = t

\* C15: every enabled pulse effect is at its baseline (zero for flares) at
\* any t before the first trigger and at any t at or after the last trigger
\* plus the effect's window, and at a trigger time, where the attack starts;
\* towards the end of a window it comes down to the baseline without a jump
\* (from one tick to the next it never drops by more than a fortieth of a
\* full pulse).  Bursts and ripples are listed only within [T, T + lifetime)
\* and [T, T + 2 s).
C15_BaselineOutsideWindows ==
  [][op' = "evaluate" =>
       /\ \A e \in PulseEffects :
            toggles[e].enabled =>
              LET triggers == TriggerList(effect_params, e)
              IN  /\ OutsideWindows(triggers, now', PulseWindow(e))
                       => PulseValue(e, values') = Baseline(e)
                  /\ AtPulseStart(triggers, now', PulseWindow(e))
                       => PulseValue(e, values') = Baseline(e)
                  /\ (op = "evaluate" /\ now' = now + 1)
                       => PulseValue(e, values) - PulseValue(e, values')
                            <= FullPulse(e) \div 40
       /\ toggles["particle_burst"].enabled =>
            (OutsideWindows(effect_params.particle_burst.triggers, now',
                            (TicksPerSecond
                               * (40 + 3 * toggles["particle_burst"].intensity)) \div 50)
               => values'.particle_bursts = << >>)
       /\ toggles["ripple_wave"].enabled =>
            (OutsideWindows(effect_params.ripple_wave.triggers, now',
                            2 * TicksPerSecond)
               => values'.ripple_waves = << >>)]_vars

\* C15's case: every effect on, one trigger, evaluated at the tick on which
\* the glow and vignette window of the trigger ends, just after a tick inside it
C15_Witness ==
  /\ op = "evaluate"
  /\ \A e \in Effects : toggles[e].enabled /\ toggles[e].intensity = 10
  /\ Len(effect_params.element_glow.pulse_triggers) = 1
  /\ effect_params.element_glow.pulse_triggers[1].strength = 100
  /\ now = effect_params.element_glow.pulse_triggers[1].time + PulseWindow("element_glow")
  /\ values.element_glow_intensity = Baseline("element_glow")
  /\ values.particle_bursts # << >>

\* C16: when the encoder exits with a non-zero status the render has failed
\* with an error that holds that status and the text the encoder wrote to
\* stderr as it was written; the encoder was started once, progress 1.0 was
\* not reported and no output path was returned.
C16_EncoderFailurePropagated ==
  (pc \in {"done", "failed"} /\ returncode # 0) =>
    /\ pc = "failed"
    /\ raised.type = "RuntimeError"
    /\ raised.exit_code = returncode
    /\ result.stderr # "" => raised.text = result.stderr
    /\ encoder_runs = 1
    /\ progress < 100 * total_frames
    /\ returned = ""

\* C16's case: the encoder has exited with status 234 having written to both
\* of its streams
C16_Witness ==
  /\ pc = "failed"
  /\ returncode = 234
  /\ result.stderr = "Conversion failed!"
  /\ result.stdout # ""
  /\ raised.text = "Conversion failed!"
  /\ progress = 85 * total_frames

(***************************************************************************)
(* Claims about two renders (specification SpecTwoRuns)                    *)
(***************************************************************************)
\* C17: two renders of the same inputs hold the same particles (angles,
\* speeds, sizes, colours, lifetimes) after the same calls.
C17_SameParticlesInBothRenders ==
  particles = twin_particles

C22_SpawnedOnSubjectBounds ==
  \A j \in DOMAIN jobs :
    \A n \in 1..Len(jobs[j].particles) :
      jobs[j].particles[n].bounds = jobs[j].params.subject_bounds

(***************************************************************************)
(* Claims about the layer functions (specification SpecLayers)             *)
(***************************************************************************)
\* C26: whenever the ripple layer reaches its divisions, the two ellipse
\* radii and the wavelength it divides by are positive, for any bounds and
\* any wavelength.
C26_RippleDenominatorsPositive ==
  (layer_call.layer = "ripple_wave" /\ layer_call.did.applied) =>
    /\ layer_call.did.radius_x > 0
    /\ layer_call.did.radius_y > 0
    /\ layer_call.did.wavelength > 0

\* C27: for any subject bounds the element-scale layer returns the frame as
\* it came or crops a box inside the frame: 0 <= bx, 0 <= by, bw > 0,
\* bh > 0, bx + bw <= width, by + bh <= height.
C27_ScaleCropInsideFrame ==
  (layer_call.layer = "element_scale" /\ layer_call.did.cropped) =>
    /\ 0 <= layer_call.did.bx
    /\ 0 <= layer_call.did.by
    /\ layer_call.did.bw > 0
    /\ layer_call.did.bh > 0
    /\ layer_call.did.bx + layer_call.did.bw <= layer_call.width
    /\ layer_call.did.by + layer_call.did.bh <= layer_call.height

\* C27's case: bounds that reach over the right edge of the frame
\* (x + w > 1), cropped to a box that ends on the edge
C27_Witness ==
  /\ layer_call.layer = "element_scale"
  /\ layer_call.bounds.x = 90
  /\ layer_call.bounds.w = 50
  /\ layer_call.did.cropped
  /\ layer_call.did.bx + layer_call.did.bw = layer_call.width

\* C27's other case: a negative size, the frame returned as it came
C27_WitnessNegativeSize ==
  /\ layer_call.layer = "element_scale"
  /\ layer_call.scale # 1000
  /\ layer_call.bounds.w < 0
  /\ ~layer_call.did.cropped

\* C28: a custom sprite that loads is what the particles are drawn with; with
\* no sprite, or one that is missing or does not load, the render goes on and
\* the particles are drawn as discs.
C28_SpriteReplacesDisc ==
  layer_call.layer = "particle_burst" =>
    /\ ~layer_call.raised
    /\ layer_call.did = IF layer_call.particle_sprite # "None"
                        THEN "sprite" ELSE "ellipse"

(***************************************************************************)
(* Claims about the builder (specification SpecBuild)                      *)
(***************************************************************************)
InputBeats == Zip(audio_features.beat_times, audio_features.beat_strengths)
InputOnsets == Zip(audio_features.onset_times, audio_features.onset_strengths)

\* the events of strength >= threshold (both in hundredths once the
\* strength, in tenths, is taken times ten), in input order
AtOrAbove(events, threshold) ==
  SelectSeq(events, LAMBDA ev : 10 * ev.strength >= threshold)

\* (time, strength * intensity) of each event
Scaled(events, intensity) ==
  [k \in 1..Len(events) |->
     [time |-> events[k].time, strength |-> events[k].strength * intensity]]

\* C12: for every thresholded effect that is enabled, the trigger list is
\* the list of the events whose strength is at or above the effect's
\* threshold (0.3 * (1 - intensity) for glow, 0.4 outline, 0.5 burst and
\* ripple, 0.6 flares, 0.8 strobe on beats; 0.7 for glitch on onsets, taken
\* at intensity 1.0 where no onset is strided away), in input order, with
\* strength * intensity.
C12_ThresholdsInclusive ==
  op = "build" =>
    LET on(e) == toggles[e].enabled
        I(e) == toggles[e].intensity
        glitch == effect_params.glitch.triggers
    IN  /\ on("element_glow") =>
             effect_params.element_glow.pulse_triggers
               = Scaled(AtOrAbove(InputBeats, 3 * (10 - I("element_glow"))),
                        I("element_glow"))
        /\ on("neon_outline") =>
             effect_params.neon_outline.pulse_triggers
               = Scaled(AtOrAbove(InputBeats, 40), I("neon_outline"))
        /\ on("particle_burst") =>
             effect_params.particle_burst.triggers
               = Scaled(AtOrAbove(InputBeats, 50), I("particle_burst"))
        /\ on("light_flares") =>
             effect_params.light_flares.triggers
               = Scaled(AtOrAbove(InputBeats, 60), I("light_flares"))
        /\ on("ripple_wave") =>
             effect_params.ripple_wave.triggers
               = Scaled(AtOrAbove(InputBeats, 50), I("ripple_wave"))
        /\ on("strobe_flash") =>
             effect_params.strobe_flash.triggers
               = [k \in 1..Len(AtOrAbove(InputBeats, 80)) |->
                    AtOrAbove(InputBeats, 80)[k].time]
        /\ (on("glitch") /\ I("glitch") = 10) =>
             [k \in 1..Len(glitch) |->
                [time |-> glitch[k].time, strength |-> glitch[k].strength]]
               = Scaled(AtOrAbove(InputOnsets, 70), 10)

C19_WitnessEmptyPalette ==
  /\ op = "build"
  /\ image_context # NoContext
  /\ image_context.colors = << >>
  /\ effect_params.element_glow.color = <<255, 200, 100>>

\* round(4 - 3 * intensity), intensity in tenths: to the nearest integer,
\* a half to the even one
RoundedStride(intensity) ==
  LET x == 40 - 3 * intensity
      q == x \div 10
      r == x % 10
  IN  IF r > 5 \/ (r = 5 /\ q % 2 = 1) THEN q + 1 ELSE q

\* C13: for every glitch intensity the glitch trigger list keeps exactly the
\* onsets at positions 0, stride, 2 * stride, ... of the list of the onsets
\* above the threshold, stride = max(1, round(4 - 3 * intensity)), each with
\* duration 0.05 + strength * 0.1 seconds and strength * intensity.
C13_StrideIsRounded ==
  (op = "build" /\ toggles["glitch"].enabled) =>
    LET intensity == toggles["glitch"].intensity
        strong == SelectSeq(InputOnsets, LAMBDA o : o.strength > 7)
        stride == Max(1, RoundedStride(intensity))
        kept == { k \in 1..Len(strong) : (k - 1) % stride = 0 }
    IN  effect_params.glitch.triggers
          = [j \in 1..Cardinality(kept) |->
               LET o == strong[(j - 1) * stride + 1]
               IN  [time |-> o.time,
                    duration |-> (TicksPerSecond * (5 + o.strength)) \div 100,
                    strength |-> o.strength * intensity]]


(***************************************************************************)
(* Claims about the session table (specification SpecSessions)             *)
(***************************************************************************)
\* C29: under any interleaving of the handlers, the cleanup and the
\* background tasks, no handler and no task uses a session that was removed
\* between its existence check and its use: sessions[session_id] never
\* raises KeyError.
C29_NoUseOfRemovedSession == key_errors = {}

\* C29, the writes of a running task: a handler step never changes the
\* render_status or the render_progress of a session it leaves in the table.
C29_TaskWritesKept ==
  [][op' \in {"create_session", "upload_image await", "upload_image resume",
              "generate_video", "export_video", "delete_session",
              "cleanup scan", "cleanup remove"} =>
       \A s \in DOMAIN sessions \cap DOMAIN sessions' :
         /\ sessions'[s].render_status = sessions[s].render_status
         /\ sessions'[s].render_progress = sessions[s].render_progress]_vars

====
